---- MODULE Spec2Model ----
(***************************************************************************)
(* The streaming relay of src/webapp/server.py: stream_agent_response, its *)
(* producer thread stream_to_queue, the hand-off queue between them and    *)
(* the SSE frames the generator yields.                                    *)
(*                                                                         *)
(* Python strings are sequences of one-character strings, so that          *)
(* concatenation and JSON parsing are computed and not assumed.  An event  *)
(* object is a record; getattr(obj, name, default) is GetAttr.             *)
(*                                                                         *)
(* Spec is one /chat request; SpecChat is two requests in flight with      *)
(* client disconnects; SpecClient is the main loop of the published-app    *)
(* clients; SpecApproval is the MCP approval loop of the project clients.  *)
(***************************************************************************)
EXTENDS Integers, Sequences, FiniteSets, TLC

\* Longest upstream event sequence explored exhaustively (the reference
\* trace of the specification is explored in addition, see UpstreamBound).
MaxEvents == 3

----------------------------------------------------------------------------
(* Python values *)

\* getattr(obj, name, default)
GetAttr(obj, name, default) ==
    IF name \in DOMAIN obj THEN obj[name] ELSE default

\* getattr(event, 'type', None)
EvType(event) == IF "type" \in DOMAIN event THEN event.type ELSE "None"

\* An id is an atomic string; NoneId is the value None in the place of an id.
\* Python truthiness: None and the empty string are falsy.
NoneId == "None"
IdTruthy(id) == id # NoneId /\ id # ""
StrTruthy(s) == s # <<>>

Q == "\""
S_hello == <<"h", "e", "l", "l", "o">>
S_a == <<"a">>
\* '{"q":'  and  '"x"}'  and their concatenation '{"q":"x"}'
ArgsHead == <<"{", Q, "q", Q, ":">>
ArgsTail == <<Q, "x", Q, "}">>
ArgsFull == ArgsHead \o ArgsTail
\* '{ }' : valid JSON whose text differs from its value
ArgsSpaced == <<"{", " ", "}">>

----------------------------------------------------------------------------
(* json.loads, on the subset of JSON made of strings and objects.  The     *)
(* result is the parsed value, written as its text without insignificant   *)
(* white space; ok = FALSE stands for the JSONDecodeError.                 *)

JsonFail == [ok |-> FALSE, next |-> 0, value |-> <<>>]

RECURSIVE SkipWs(_, _)
SkipWs(s, i) ==
    IF i <= Len(s) /\ s[i] = " " THEN SkipWs(s, i + 1) ELSE i

\* index just after the closing quote of the string opened before position i
RECURSIVE StringEnd(_, _)
StringEnd(s, i) ==
    IF i > Len(s) THEN 0
    ELSE IF s[i] = Q THEN i + 1
    ELSE StringEnd(s, i + 1)

RECURSIVE ParseValue(_, _)
RECURSIVE ParseMembers(_, _, _)

\* members of an object after '{' or ',': "key" : value, then ',' or '}'
ParseMembers(s, i, acc) ==
    LET k == SkipWs(s, i) IN
    IF k > Len(s) \/ s[k] # Q THEN JsonFail
    ELSE LET ke == StringEnd(s, k + 1) IN
         IF ke = 0 THEN JsonFail
         ELSE LET c == SkipWs(s, ke) IN
              IF c > Len(s) \/ s[c] # ":" THEN JsonFail
              ELSE LET v == ParseValue(s, c + 1) IN
                   IF ~v.ok THEN JsonFail
                   ELSE LET e == SkipWs(s, v.next)
                            m == acc \o SubSeq(s, k, ke - 1) \o <<":">> \o v.value
                        IN  IF e > Len(s) THEN JsonFail
                            ELSE IF s[e] = "}"
                                 THEN [ok |-> TRUE, next |-> e + 1,
                                       value |-> m \o <<"}">>]
                            ELSE IF s[e] = ","
                                 THEN ParseMembers(s, e + 1, m \o <<",">>)
                            ELSE JsonFail

ParseValue(s, i) ==
    LET j == SkipWs(s, i) IN
    IF j > Len(s) THEN JsonFail
    ELSE IF s[j] = Q
         THEN LET e == StringEnd(s, j + 1) IN
              IF e = 0 THEN JsonFail
              ELSE [ok |-> TRUE, next |-> e, value |-> SubSeq(s, j, e - 1)]
    ELSE IF s[j] = "{"
         THEN LET k == SkipWs(s, j + 1) IN
              IF k <= Len(s) /\ s[k] = "}"
              THEN [ok |-> TRUE, next |-> k + 1, value |-> <<"{", "}">>]
              ELSE ParseMembers(s, j + 1, <<"{">>)
    ELSE JsonFail

JsonLoads(s) ==
    LET r == ParseValue(s, 1) IN
    IF r.ok /\ SkipWs(s, r.next) > Len(s)
    THEN [ok |-> TRUE, value |-> r.value]
    ELSE [ok |-> FALSE, value |-> <<>>]

\* the 'arguments' member of a tool_args frame: a parsed JSON value or a
\* plain string
Parsed(v) == [kind |-> "json", text |-> v]
Raw(s) == [kind |-> "str", text |-> s]
EmptyDict == Parsed(<<"{", "}">>)

\* json.loads(arguments) if arguments else {}
LoadsOrEmpty(arguments) ==
    IF StrTruthy(arguments) THEN JsonLoads(arguments)
    ELSE [ok |-> TRUE, value |-> <<"{", "}">>]

----------------------------------------------------------------------------
(* Upstream events (the objects the SDK stream yields) *)

TextDelta(d) == [type |-> "response.output_text.delta", delta |-> d]
ItemAdded(item) == [type |-> "response.output_item.added", item |-> item]
InProgress(id) == [type |-> "response.mcp_call.in_progress", item_id |-> id]
ArgsDelta(id, d) ==
    [type |-> "response.mcp_call_arguments.delta", item_id |-> id, delta |-> d]
ArgsDone(id, a) ==
    [type |-> "response.mcp_call_arguments.done", item_id |-> id, arguments |-> a]
CallCompleted(id) == [type |-> "response.mcp_call.completed", item_id |-> id]
ListToolsCompleted == [type |-> "response.mcp_list_tools.completed"]
ItemDone(item) == [type |-> "response.output_item.done", item |-> item]
ResponseCompleted == [type |-> "response.completed"]
ErrorEvent == [type |-> "error", error |-> "rate limited"]
ResponseCreated == [type |-> "response.created"]

McpItem == [type |-> "mcp_call", id |-> "1", name |-> "search"]
ListToolsItem == [type |-> "mcp_list_tools", server_label |-> "kb"]
FuncItem == [type |-> "function_call", id |-> "2", name |-> "lookup"]
FuncItemDone ==
    [type |-> "function_call", id |-> "2", name |-> "lookup",
     arguments |-> ArgsSpaced]

UrlCitation == [type |-> "url_citation", url |-> "http://u"]
FileCitation == [type |-> "file_citation", file_id |-> "f1"]
\* a url_citation annotation that carries no url attribute
UrlCitationNoUrl == [type |-> "url_citation"]
MessageItem(anns) ==
    [type |-> "message",
     content |-> << [type |-> "output_text", annotations |-> <<FileCitation>>],
                    [type |-> "output_text", annotations |-> anns] >>]

UpstreamEvents ==
    { TextDelta(S_hello), TextDelta(S_a),
      ItemAdded(McpItem), ItemAdded(ListToolsItem), ItemAdded(FuncItem),
      InProgress("1"),
      ArgsDelta("1", ArgsHead), ArgsDelta("1", ArgsTail),
      ArgsDone("1", ArgsFull), ArgsDone("1", ArgsHead),
      CallCompleted("1"),
      ListToolsCompleted,
      ItemDone(FuncItemDone),
      ItemDone(MessageItem(<<UrlCitation, FileCitation>>)),
      ItemDone(MessageItem(<<UrlCitationNoUrl>>)),
      ResponseCompleted, ErrorEvent, ResponseCreated }

\* the upstream sequence of the specification's reference trace
ReferenceTrace ==
    << ItemAdded(McpItem), InProgress("1"),
       ArgsDelta("1", ArgsHead), ArgsDelta("1", ArgsTail),
       ArgsDone("1", ArgsFull), CallCompleted("1"),
       TextDelta(S_hello), ResponseCompleted >>

\* an upstream whose arguments.done event carries a text that is not the
\* concatenation of the argument deltas sent before it
MismatchTrace ==
    << ItemAdded(McpItem), ArgsDelta("1", ArgsHead),
       ArgsDone("1", ArgsFull), CallCompleted("1") >>

\* an arguments.done event whose arguments text is empty, then a text delta
EmptyArgsTrace ==
    << ItemAdded(McpItem), ArgsDone("1", <<>>), TextDelta(S_hello) >>

\* an event object without a type attribute, then a text delta
UntypedEvent == [sequence_number |-> "7"]
UntypedTrace == << UntypedEvent, TextDelta(S_hello) >>

\* an annotation of a kind that is not cited
OtherAnnotation == [type |-> "container_file_citation"]
\* a file_citation annotation without file_id
FileCitationNoId == [type |-> "file_citation"]

\* completed message items: one with cited and uncited annotations, one
\* whose last content block is not output_text, one whose last block has
\* nothing to cite, one without content
CitationTrace ==
    << ItemDone([type |-> "message",
                 content |-> << [type |-> "output_text",
                                 annotations |-> <<OtherAnnotation,
                                                   FileCitationNoId,
                                                   UrlCitation>>] >>]),
       ItemDone([type |-> "message",
                 content |-> << [type |-> "output_text",
                                 annotations |-> <<UrlCitation>>],
                                [type |-> "refusal",
                                 annotations |-> <<UrlCitation>>] >>]),
       ItemDone([type |-> "message",
                 content |-> << [type |-> "output_text",
                                 annotations |-> <<OtherAnnotation>>] >>]),
       ItemDone([type |-> "message", content |-> <<>>]) >>

LongTraces ==
    {ReferenceTrace, MismatchTrace, EmptyArgsTrace, UntypedTrace, CitationTrace}

\* the events of the long traces
TraceEvents == UNION {{t[i] : i \in 1..Len(t)} : t \in LongTraces}

IsPrefix(s, t) == Len(s) <= Len(t) /\ SubSeq(t, 1, Len(s)) = s

\* upstream sequences explored: all of length <= MaxEvents, and the
\* long traces above
UpstreamBound(seq) ==
    \/ Len(seq) <= MaxEvents /\ \A i \in 1..Len(seq) : seq[i] \in UpstreamEvents
    \/ \E t \in LongTraces : IsPrefix(seq, t)

\* str(e) of the exceptions that can be raised
ClientFault == "credential unavailable"
UpstreamFault == "connection reset"
AttributeFault == "object has no attribute 'url'"

----------------------------------------------------------------------------
(* SSE frames: the JSON object of one  data: <json>  frame *)

TextDeltaFrame(d) == [type |-> "text_delta", content |-> d]
ToolStartFrame(id, name) == [type |-> "tool_start", id |-> id, name |-> name]
ToolArgsFrame(id, a) == [type |-> "tool_args", id |-> id, arguments |-> a]
ToolDoneFrame(id, name) == [type |-> "tool_done", id |-> id, name |-> name]
ToolDoneNoNameFrame(id) == [type |-> "tool_done", id |-> id]
ToolDiscoveryFrame(src) == [type |-> "tool_discovery", source |-> src]
ToolDiscoveryDoneFrame == [type |-> "tool_discovery_done"]
CitationsFrame(c) == [type |-> "citations", citations |-> c]
DoneFrame == [type |-> "done"]
ErrorFrame(msg) == [type |-> "error", error |-> msg]

----------------------------------------------------------------------------
(* dict operations *)

\* d[k] = v
\* variant: the assignment is lost
DictSet_Lost(d, k, v) == d

DictSet(d, k, v) == [x \in DOMAIN d \cup {k} |-> IF x = k THEN v ELSE d[x]]
\* variant: the entry is looked up but left in the table
DictPop_Keep(d, k) == d

\* d.pop(k, None)
DictPop(d, k) == [x \in DOMAIN d \ {k} |-> d[x]]
EmptyTable == <<>>

----------------------------------------------------------------------------
(* The body of the consumer loop for one event.  Each branch gives the     *)
(* frames it yields, in order, the pending tables it leaves, and whether   *)
(* it raised (fault # "").                                                 *)

Outcome(fr, tools, args) ==
    [frames |-> fr, tools |-> tools, args |-> args, fault |-> ""]
\* variant: the branch swallows its own exception
Raised_Swallowed(msg, tools, args) ==
    [frames |-> <<>>, tools |-> tools, args |-> args, fault |-> ""]

Raised(msg, tools, args) ==
    [frames |-> <<>>, tools |-> tools, args |-> args, fault |-> msg]

\* getattr(item, 'name', None) or getattr(item, 'server_label', 'Tool')
McpToolName(item) ==
    IF "name" \in DOMAIN item /\ item.name # NoneId /\ item.name # ""
    THEN item.name
    ELSE GetAttr(item, "server_label", "Tool")

OnTextDelta(event, tools, args) ==
    Outcome(<<TextDeltaFrame(GetAttr(event, "delta", <<>>))>>, tools, args)

\* variant: announcing an mcp_call also sends its (still empty) arguments
OnItemAdded_SendArgs(event, tools, args) ==
    IF "item" \notin DOMAIN event THEN Outcome(<<>>, tools, args)
    ELSE LET item == event.item
             item_type == GetAttr(item, "type", NoneId)
             item_id == GetAttr(item, "id", NoneId)
         IN  IF item_type = "mcp_call"
             THEN Outcome(<<ToolStartFrame(item_id, McpToolName(item)),
                            ToolArgsFrame(item_id, EmptyDict)>>,
                          DictSet(tools, item_id,
                                  [name |-> McpToolName(item), arguments |-> <<>>]),
                          args)
             ELSE IF item_type = "mcp_list_tools"
             THEN Outcome(<<ToolDiscoveryFrame(
                              GetAttr(item, "server_label", "knowledge base"))>>,
                          tools, args)
             ELSE IF item_type = "function_call"
             THEN Outcome(<<ToolStartFrame(item_id, GetAttr(item, "name", "Tool"))>>,
                          DictSet(tools, item_id,
                                  [name |-> GetAttr(item, "name", "Tool"),
                                   arguments |-> <<>>]),
                          args)
             ELSE Outcome(<<>>, tools, args)

OnItemAdded(event, tools, args) ==
    IF "item" \notin DOMAIN event THEN Outcome(<<>>, tools, args)
    ELSE LET item == event.item
             item_type == GetAttr(item, "type", NoneId)
             item_id == GetAttr(item, "id", NoneId)
         IN  IF item_type = "mcp_call"
             THEN Outcome(<<ToolStartFrame(item_id, McpToolName(item))>>,
                          DictSet(tools, item_id,
                                  [name |-> McpToolName(item), arguments |-> <<>>]),
                          args)
             ELSE IF item_type = "mcp_list_tools"
             THEN Outcome(<<ToolDiscoveryFrame(
                              GetAttr(item, "server_label", "knowledge base"))>>,
                          tools, args)
             ELSE IF item_type = "function_call"
             THEN Outcome(<<ToolStartFrame(item_id, GetAttr(item, "name", "Tool"))>>,
                          DictSet(tools, item_id,
                                  [name |-> GetAttr(item, "name", "Tool"),
                                   arguments |-> <<>>]),
                          args)
             ELSE Outcome(<<>>, tools, args)

\* variant: in_progress always starts an empty buffer
OnInProgress_Reset(event, tools, args) ==
    LET item_id == GetAttr(event, "item_id", NoneId) IN
    IF IdTruthy(item_id)
    THEN Outcome(<<>>, tools, DictSet(args, item_id, <<>>))
    ELSE Outcome(<<>>, tools, args)

OnInProgress(event, tools, args) ==
    LET item_id == GetAttr(event, "item_id", NoneId) IN
    IF IdTruthy(item_id) /\ item_id \notin DOMAIN args
    THEN Outcome(<<>>, tools, DictSet(args, item_id, <<>>))
    ELSE Outcome(<<>>, tools, args)

\* variant: every argument delta is forwarded as a tool_args frame
OnArgsDelta_Emit(event, tools, args) ==
    LET item_id == GetAttr(event, "item_id", NoneId)
        delta == GetAttr(event, "delta", <<>>)
    IN  IF IdTruthy(item_id)
        THEN Outcome(<<ToolArgsFrame(item_id, Raw(delta))>>, tools,
                     DictSet(args, item_id,
                             (IF item_id \in DOMAIN args THEN args[item_id]
                              ELSE <<>>) \o delta))
        ELSE Outcome(<<>>, tools, args)

OnArgsDelta(event, tools, args) ==
    LET item_id == GetAttr(event, "item_id", NoneId)
        delta == GetAttr(event, "delta", <<>>)
    IN  IF IdTruthy(item_id)
        THEN Outcome(<<>>, tools,
                     DictSet(args, item_id,
                             (IF item_id \in DOMAIN args THEN args[item_id]
                              ELSE <<>>) \o delta))
        ELSE Outcome(<<>>, tools, args)

\* variant: the JSON error is not caught and reaches the outer except
OnArgsDone_Strict(event, tools, args) ==
    LET item_id == GetAttr(event, "item_id", NoneId)
        arguments == GetAttr(event, "arguments", <<"{", "}">>)
        loaded == LoadsOrEmpty(arguments)
    IN  IF IdTruthy(item_id) /\ item_id \in DOMAIN tools
        THEN IF loaded.ok
             THEN Outcome(<<ToolArgsFrame(item_id, Parsed(loaded.value))>>,
                          [tools EXCEPT ![item_id].arguments = arguments],
                          args)
             ELSE Raised("Expecting value",
                         [tools EXCEPT ![item_id].arguments = arguments], args)
        ELSE Outcome(<<>>, tools, args)

OnArgsDone(event, tools, args) ==
    LET item_id == GetAttr(event, "item_id", NoneId)
        arguments == GetAttr(event, "arguments", <<"{", "}">>)
        loaded == LoadsOrEmpty(arguments)
    IN  IF IdTruthy(item_id) /\ item_id \in DOMAIN tools
        THEN Outcome(<<ToolArgsFrame(item_id,
                          IF loaded.ok THEN Parsed(loaded.value)
                          ELSE Raw(arguments))>>,
                     [tools EXCEPT ![item_id].arguments = arguments],
                     args)
        ELSE Outcome(<<>>, tools, args)

\* variant: the name recorded at the announcement is not looked up
OnCallCompleted_DefaultName(event, tools, args) ==
    LET item_id == GetAttr(event, "item_id", NoneId) IN
    IF IdTruthy(item_id)
    THEN Outcome(<<ToolDoneFrame(item_id, "Tool")>>,
                 DictPop(tools, item_id), DictPop(args, item_id))
    ELSE Outcome(<<>>, tools, args)

OnCallCompleted(event, tools, args) ==
    LET item_id == GetAttr(event, "item_id", NoneId) IN
    IF IdTruthy(item_id)
    THEN Outcome(<<ToolDoneFrame(item_id,
                      IF item_id \in DOMAIN tools THEN tools[item_id].name
                      ELSE "Tool")>>,
                 DictPop(tools, item_id), DictPop(args, item_id))
    ELSE Outcome(<<>>, tools, args)

\* variant: the end of the tool listing is not reported
OnListToolsCompleted_Silent(event, tools, args) ==
    Outcome(<<>>, tools, args)

OnListToolsCompleted(event, tools, args) ==
    Outcome(<<ToolDiscoveryDoneFrame>>, tools, args)

\* variant: annotations of other kinds are listed too
RECURSIVE CollectCitations_AllKinds(_, _)
CollectCitations_AllKinds(annotations, i) ==
    IF i > Len(annotations) THEN [fault |-> "", list |-> <<>>]
    ELSE LET ann == annotations[i]
             kind == GetAttr(ann, "type", NoneId)
             rest == CollectCitations_AllKinds(annotations, i + 1)
         IN  IF kind = "url_citation"
             THEN IF "url" \notin DOMAIN ann
                  THEN [fault |-> AttributeFault, list |-> <<>>]
                  ELSE [fault |-> rest.fault,
                        list |-> <<[type |-> "url", url |-> ann.url]>> \o rest.list]
             ELSE [fault |-> rest.fault,
                   list |-> <<[type |-> "file",
                               file_id |-> GetAttr(ann, "file_id", "unknown")]>>
                            \o rest.list]

\* the citations list built from the annotations from position i on;
\* fault is set when ann.url is read on an annotation without that attribute
RECURSIVE CollectCitations(_, _)
CollectCitations(annotations, i) ==
    IF i > Len(annotations) THEN [fault |-> "", list |-> <<>>]
    ELSE LET ann == annotations[i]
             kind == GetAttr(ann, "type", NoneId)
             rest == CollectCitations(annotations, i + 1)
         IN  IF kind = "url_citation"
             THEN IF "url" \notin DOMAIN ann
                  THEN [fault |-> AttributeFault, list |-> <<>>]
                  ELSE [fault |-> rest.fault,
                        list |-> <<[type |-> "url", url |-> ann.url]>> \o rest.list]
             ELSE IF kind = "file_citation"
             THEN [fault |-> rest.fault,
                   list |-> <<[type |-> "file",
                               file_id |-> GetAttr(ann, "file_id", "unknown")]>>
                            \o rest.list]
             ELSE rest

OnItemDone(event, tools, args) ==
    IF "item" \notin DOMAIN event THEN Outcome(<<>>, tools, args)
    ELSE LET item == event.item
             item_type == GetAttr(item, "type", NoneId)
             item_id == GetAttr(item, "id", NoneId)
         IN  IF item_type = "function_call"
             THEN LET func_args == GetAttr(item, "arguments", <<"{", "}">>)
                      loaded == LoadsOrEmpty(func_args)
                  IN  Outcome((IF loaded.ok
                               THEN <<ToolArgsFrame(item_id, Parsed(loaded.value))>>
                               ELSE <<>>)
                              \o <<ToolDoneNoNameFrame(item_id)>>,
                              DictPop(tools, item_id), args)
             ELSE IF item_type = "message"
             THEN LET content == GetAttr(item, "content", <<>>) IN
                  IF Len(content) = 0 THEN Outcome(<<>>, tools, args)
                  ELSE LET last_content == content[Len(content)] IN
                       IF GetAttr(last_content, "type", NoneId) # "output_text"
                       THEN Outcome(<<>>, tools, args)
                       ELSE LET c == CollectCitations(
                                       GetAttr(last_content, "annotations", <<>>), 1)
                            IN  IF c.fault # "" THEN Raised(c.fault, tools, args)
                                ELSE IF c.list # <<>>
                                THEN Outcome(<<CitationsFrame(c.list)>>, tools, args)
                                ELSE Outcome(<<>>, tools, args)
             ELSE Outcome(<<>>, tools, args)

OnResponseCompleted(event, tools, args) ==
    Outcome(<<DoneFrame>>, tools, args)

OnError(event, tools, args) ==
    Outcome(<<ErrorFrame(GetAttr(event, "error", "Unknown error"))>>, tools, args)

\* variant: a final else that rejects the tags the chain does not know
HandleEvent_RejectUnknown(event, tools, args) ==
    LET event_type == GetAttr(event, "type", NoneId) IN
    CASE event_type = "response.output_text.delta" -> OnTextDelta(event, tools, args)
      [] event_type = "response.output_item.added" -> OnItemAdded(event, tools, args)
      [] event_type = "response.mcp_call.in_progress" -> OnInProgress(event, tools, args)
      [] event_type = "response.mcp_call_arguments.delta" -> OnArgsDelta(event, tools, args)
      [] event_type = "response.mcp_call_arguments.done" -> OnArgsDone(event, tools, args)
      [] event_type = "response.mcp_call.completed" -> OnCallCompleted(event, tools, args)
      [] event_type = "response.mcp_list_tools.completed" ->
             OnListToolsCompleted(event, tools, args)
      [] event_type = "response.output_item.done" -> OnItemDone(event, tools, args)
      [] event_type = "response.completed" -> OnResponseCompleted(event, tools, args)
      [] event_type = "error" -> OnError(event, tools, args)
      [] OTHER -> Raised("unknown event type", tools, args)

\* the if/elif chain on event_type
HandleEvent(event, tools, args) ==
    LET event_type == GetAttr(event, "type", NoneId) IN
    CASE event_type = "response.output_text.delta" -> OnTextDelta(event, tools, args)
      [] event_type = "response.output_item.added" -> OnItemAdded(event, tools, args)
      [] event_type = "response.mcp_call.in_progress" -> OnInProgress(event, tools, args)
      [] event_type = "response.mcp_call_arguments.delta" -> OnArgsDelta(event, tools, args)
      [] event_type = "response.mcp_call_arguments.done" -> OnArgsDone(event, tools, args)
      [] event_type = "response.mcp_call.completed" -> OnCallCompleted(event, tools, args)
      [] event_type = "response.mcp_list_tools.completed" ->
             OnListToolsCompleted(event, tools, args)
      [] event_type = "response.output_item.done" -> OnItemDone(event, tools, args)
      [] event_type = "response.completed" -> OnResponseCompleted(event, tools, args)
      [] event_type = "error" -> OnError(event, tools, args)
      [] OTHER -> Outcome(<<>>, tools, args)

----------------------------------------------------------------------------
(* State of one /chat request *)

VARIABLES
    upstream,       \* the events the upstream stream has yielded so far
    thread,         \* stream_thread: "not_started", "running", "exited"
    stream_done,    \* the nonlocal flag set in stream_to_queue's finally
    event_queue,    \* queue.Queue(): the items put and not yet got
    puts,           \* every item ever put on event_queue, in order
    pc,             \* the generator: "start", "get", "sleep", "closed"
    received,       \* the events event_queue.get has returned to the loop
    pending_tools,  \* dict id -> {'name', 'arguments'}
    pending_args,   \* dict id -> accumulated argument text
    frames          \* the SSE frames yielded so far, in order

\* concurrent /chat requests (server.py chat)
VARIABLES
    requests        \* request name -> the locals of its stream_agent_response

\* the published-app clients' main loop
VARIABLES
    client_kind,           \* which client runs: "none", "plain", "streaming"
    user_input,            \* the line read by input(), stripped
    conversation_history,  \* list of {'role', 'content'}
    input_items,           \* the input of the last responses.create call
    response_text,         \* the text of the last response
    turn                   \* how the last pass of the loop ended

\* process_response_with_mcp_approval of the project clients
VARIABLES
    response,              \* the current response object
    approvals,             \* the input of the last continuation request
    previous_response_id,  \* its previous_response_id
    calls,                 \* continuation requests made so far
    approval_pc            \* "idle", "loop", "returned", "raised"

\* stream_response of the streaming command-line client
VARIABLES
    cli_pc,              \* "idle", "loop", "returned", "raised"
    consumed,            \* the events the for loop has taken from the stream
    full_text,           \* the text accumulated so far
    final_response,      \* the 'response' of the last response.completed
    tool_calls,          \* the ledger: list of {'name', 'arguments', id}
    pending_tool_calls,  \* dict id -> {'name', 'arguments', id}
    pending_mcp_args     \* dict id -> accumulated argument text

\* main() of the project client (clients/project/foundry-agent-app.py)
VARIABLES
    project_pc,             \* "start", "prompt", "exited"
    conversation,           \* conversation.id; 0 before the first is created
    conversations_created,  \* conversations the service has created
    last_response,          \* the response object kept for chaining, or None
    project_turn,           \* how the last pass of the loop ended
    session_log             \* the 'new' commands and requests so far, in order

relayVars == <<upstream, thread, stream_done, event_queue, puts, pc, received,
               pending_tools, pending_args, frames>>
chatVars == <<requests>>
clientVars == <<client_kind, user_input, conversation_history, input_items,
                response_text, turn>>
approvalVars == <<response, approvals, previous_response_id, calls, approval_pc>>
cliVars == <<cli_pc, consumed, full_text, final_response, tool_calls,
             pending_tool_calls, pending_mcp_args>>
projectVars == <<project_pc, conversation, conversations_created, last_response,
                 project_turn, session_log>>

vars == <<relayVars, chatVars, clientVars, approvalVars, cliVars, projectVars>>

\* what a step of the single-request relay leaves alone
outsideRelay == <<chatVars, clientVars, approvalVars, cliVars, projectVars>>

producerVars == <<upstream, thread, stream_done, puts>>
consumerVars == <<pc, received, pending_tools, pending_args, frames>>

\* queue items that are not events
EndSentinel == [sentinel |-> "None"]
FaultSentinel(msg) == [sentinel |-> "Exception", message |-> msg]
IsEvent(item) == "sentinel" \notin DOMAIN item
EventsOf(q) == SelectSeq(q, IsEvent)

\* the requests that may be in flight at once
Requests == {"r1", "r2"}

\* the locals of a stream_agent_response call that has not run yet
FreshRequest ==
    [pc |-> "start", thread |-> "not_started", stream_done |-> FALSE,
     event_queue |-> <<>>, puts |-> <<>>, received |-> <<>>,
     pending_tools |-> EmptyTable, pending_args |-> EmptyTable,
     frames |-> <<>>]

\* no response object yet
NoResponse == [id |-> NoneId]

Init ==
    /\ requests = [r \in Requests |-> FreshRequest]
    /\ client_kind = "none"
    /\ user_input = <<>>
    /\ conversation_history = <<>>
    /\ input_items = <<>>
    /\ response_text = <<>>
    /\ turn = "none"
    /\ response = NoResponse
    /\ approvals = <<>>
    /\ previous_response_id = NoneId
    /\ calls = 0
    /\ approval_pc = "idle"
    /\ project_pc = "start"
    /\ conversation = 0
    /\ conversations_created = 0
    /\ last_response = NoResponse
    /\ project_turn = "none"
    /\ session_log = <<>>
    /\ cli_pc = "idle"
    /\ consumed = <<>>
    /\ full_text = <<>>
    /\ final_response = NoneId
    /\ tool_calls = <<>>
    /\ pending_tool_calls = EmptyTable
    /\ pending_mcp_args = EmptyTable
    /\ upstream = <<>>
    /\ thread = "not_started"
    /\ stream_done = FALSE
    /\ event_queue = <<>>
    /\ puts = <<>>
    /\ pc = "start"
    /\ received = <<>>
    /\ pending_tools = EmptyTable
    /\ pending_args = EmptyTable
    /\ frames = <<>>

----------------------------------------------------------------------------
(* stream_agent_response up to the loop *)

\* get_openai_client() returns; the queue and the tables are created and the
\* producer thread is started
StartStream ==
    /\ pc = "start"
    /\ pc' = "get"
    /\ thread' = "running"
    /\ UNCHANGED <<upstream, stream_done, event_queue, puts, received,
                   pending_tools, pending_args, frames>>
    /\ UNCHANGED outsideRelay

\* get_openai_client() raises: the outer except yields the error frame
StartFails ==
    /\ pc = "start"
    /\ frames' = Append(frames, ErrorFrame(ClientFault))
    /\ pc' = "closed"
    /\ UNCHANGED <<upstream, thread, stream_done, event_queue, puts, received,
                   pending_tools, pending_args>>
    /\ UNCHANGED outsideRelay

----------------------------------------------------------------------------
(* stream_to_queue, the producer thread *)

\* variant: a LIFO queue, the event is put at the head
PutEvent_Lifo ==
    /\ thread = "running"
    /\ \E event \in UpstreamEvents \cup TraceEvents :
          /\ UpstreamBound(Append(upstream, event))
          /\ upstream' = Append(upstream, event)
          /\ event_queue' = <<event>> \o event_queue
          /\ puts' = Append(puts, event)
    /\ UNCHANGED <<thread, stream_done>>
    /\ UNCHANGED consumerVars
    /\ UNCHANGED outsideRelay

\* for event in stream: event_queue.put(event)
PutEvent ==
    /\ thread = "running"
    /\ \E event \in UpstreamEvents \cup TraceEvents :
          /\ UpstreamBound(Append(upstream, event))
          /\ upstream' = Append(upstream, event)
          /\ event_queue' = Append(event_queue, event)
          /\ puts' = Append(puts, event)
    /\ UNCHANGED <<thread, stream_done>>
    /\ UNCHANGED consumerVars
    /\ UNCHANGED outsideRelay

\* variant: the thread ends without putting None
PutEnd_Silent ==
    /\ thread = "running"
    /\ stream_done' = TRUE
    /\ thread' = "exited"
    /\ UNCHANGED <<upstream, event_queue, puts>>
    /\ UNCHANGED consumerVars
    /\ UNCHANGED outsideRelay

\* the stream is exhausted: event_queue.put(None), then finally
PutEnd ==
    /\ thread = "running"
    /\ event_queue' = Append(event_queue, EndSentinel)
    /\ puts' = Append(puts, EndSentinel)
    /\ stream_done' = TRUE
    /\ thread' = "exited"
    /\ UNCHANGED upstream
    /\ UNCHANGED consumerVars
    /\ UNCHANGED outsideRelay

\* variant: None is put in the finally block, hence also after a fault
PutFault_ThenEnd ==
    /\ thread = "running"
    /\ event_queue' = event_queue \o <<FaultSentinel(UpstreamFault), EndSentinel>>
    /\ puts' = puts \o <<FaultSentinel(UpstreamFault), EndSentinel>>
    /\ stream_done' = TRUE
    /\ thread' = "exited"
    /\ UNCHANGED upstream
    /\ UNCHANGED consumerVars
    /\ UNCHANGED outsideRelay

\* client.responses.create or the iteration raises: event_queue.put(e),
\* then finally
PutFault ==
    /\ thread = "running"
    /\ event_queue' = Append(event_queue, FaultSentinel(UpstreamFault))
    /\ puts' = Append(puts, FaultSentinel(UpstreamFault))
    /\ stream_done' = TRUE
    /\ thread' = "exited"
    /\ UNCHANGED upstream
    /\ UNCHANGED consumerVars
    /\ UNCHANGED outsideRelay

----------------------------------------------------------------------------
(* the consumer loop of stream_agent_response *)

\* event_queue.get returns None: break, the generator returns
GetEnd ==
    /\ pc = "get"
    /\ event_queue # <<>>
    /\ Head(event_queue) = EndSentinel
    /\ event_queue' = Tail(event_queue)
    /\ pc' = "closed"
    /\ UNCHANGED <<received, pending_tools, pending_args, frames>>
    /\ UNCHANGED producerVars
    /\ UNCHANGED outsideRelay

\* variant: the exception is dropped and the loop goes on polling
GetFault_Swallow ==
    /\ pc = "get"
    /\ event_queue # <<>>
    /\ ~IsEvent(Head(event_queue))
    /\ Head(event_queue) # EndSentinel
    /\ event_queue' = Tail(event_queue)
    /\ pc' = "get"
    /\ UNCHANGED <<received, pending_tools, pending_args, frames>>
    /\ UNCHANGED producerVars
    /\ UNCHANGED outsideRelay

\* event_queue.get returns an exception: raise event, caught by the outer
\* except, which yields the error frame
GetFault ==
    /\ pc = "get"
    /\ event_queue # <<>>
    /\ ~IsEvent(Head(event_queue))
    /\ Head(event_queue) # EndSentinel
    /\ event_queue' = Tail(event_queue)
    /\ frames' = Append(frames, ErrorFrame(Head(event_queue).message))
    /\ pc' = "closed"
    /\ UNCHANGED <<received, pending_tools, pending_args>>
    /\ UNCHANGED producerVars
    /\ UNCHANGED outsideRelay

\* event_queue.get returns an event: one pass through the if/elif chain.
\* A branch that raises is caught by the outer except.
GetEvent ==
    /\ pc = "get"
    /\ event_queue # <<>>
    /\ IsEvent(Head(event_queue))
    /\ LET event == Head(event_queue)
           r == HandleEvent(event, pending_tools, pending_args)
       IN  /\ event_queue' = Tail(event_queue)
           /\ received' = Append(received, event)
           /\ pending_tools' = r.tools
           /\ pending_args' = r.args
           /\ IF r.fault # ""
              THEN /\ frames' = frames \o r.frames \o <<ErrorFrame(r.fault)>>
                   /\ pc' = "closed"
              ELSE /\ frames' = frames \o r.frames
                   /\ pc' = "get"
    /\ UNCHANGED producerVars
    /\ UNCHANGED outsideRelay

\* variant: the first timeout is taken as a deadline and ends the stream
GetTimeout_Deadline ==
    /\ pc = "get"
    /\ event_queue = <<>>
    /\ pc' = "closed"
    /\ UNCHANGED <<event_queue, received, pending_tools, pending_args, frames>>
    /\ UNCHANGED producerVars
    /\ UNCHANGED outsideRelay

\* event_queue.get times out on the empty queue: queue.Empty
GetTimeout ==
    /\ pc = "get"
    /\ event_queue = <<>>
    /\ pc' = "sleep"
    /\ UNCHANGED <<event_queue, received, pending_tools, pending_args, frames>>
    /\ UNCHANGED producerVars
    /\ UNCHANGED outsideRelay

\* await asyncio.sleep(0.01) returns; continue
Wake ==
    /\ pc = "sleep"
    /\ pc' = "get"
    /\ UNCHANGED <<event_queue, received, pending_tools, pending_args, frames>>
    /\ UNCHANGED producerVars
    /\ UNCHANGED outsideRelay

Next ==
    \/ StartStream
    \/ StartFails
    \/ PutEvent
    \/ PutEnd
    \/ PutFault
    \/ GetEnd
    \/ GetFault
    \/ GetEvent
    \/ GetTimeout
    \/ Wake

Spec == Init /\ [][Next]_vars

----------------------------------------------------------------------------
(* The same relay with a finite upstream under fair scheduling: the        *)
(* producer is an operating-system thread, the generator is resumed by the *)
(* event loop for as long as the client stays connected.                   *)

\* upstream events explored under fairness
MaxLiveEvents == 2

LiveEvents ==
    { TextDelta(S_a), ResponseCompleted, ErrorEvent,
      ItemDone(MessageItem(<<UrlCitationNoUrl>>)) }

\* for event in stream: event_queue.put(event)
PutLiveEvent ==
    /\ thread = "running"
    /\ Len(upstream) < MaxLiveEvents
    /\ \E event \in LiveEvents :
          /\ upstream' = Append(upstream, event)
          /\ event_queue' = Append(event_queue, event)
          /\ puts' = Append(puts, event)
    /\ UNCHANGED <<thread, stream_done>>
    /\ UNCHANGED consumerVars
    /\ UNCHANGED outsideRelay

NextLive ==
    \/ StartStream
    \/ StartFails
    \/ PutLiveEvent
    \/ PutEnd
    \/ PutFault
    \/ GetEnd
    \/ GetFault
    \/ GetEvent
    \/ GetTimeout
    \/ Wake

\* the generator is started, the producer thread runs until its finite
\* upstream is exhausted or raises, and the loop is resumed again and again
Fairness ==
    /\ WF_vars(StartStream \/ StartFails)
    /\ WF_vars(PutLiveEvent \/ PutEnd \/ PutFault)
    /\ WF_vars(GetEnd \/ GetFault \/ GetEvent \/ GetTimeout \/ Wake)

SpecLive == Init /\ [][NextLive]_vars /\ Fairness

----------------------------------------------------------------------------
(* Two /chat requests in flight: every call of stream_agent_response has    *)
(* its own locals (client, event_queue, stream_thread, pending_tools,       *)
(* pending_args), and the client may disconnect while the generator runs.   *)

\* events per request explored with concurrent requests
MaxChatEvents == 2

ChatEvents == {ItemAdded(McpItem), ArgsDelta("1", ArgsHead), CallCompleted("1")}

\* what a step of the concurrent requests leaves alone
outsideChat == <<relayVars, clientVars, approvalVars, cliVars, projectVars>>

ChatStartStream(r) ==
    /\ requests[r].pc = "start"
    /\ requests' = [requests EXCEPT ![r].pc = "get", ![r].thread = "running"]
    /\ UNCHANGED outsideChat

ChatStartFails(r) ==
    /\ requests[r].pc = "start"
    /\ requests' = [requests EXCEPT
                       ![r].frames = Append(@, ErrorFrame(ClientFault)),
                       ![r].pc = "closed"]
    /\ UNCHANGED outsideChat

\* variant: one module-level queue, the one the first request created
ChatPutEvent_Shared(r) ==
    /\ requests[r].thread = "running"
    /\ Len(EventsOf(requests[r].puts)) < MaxChatEvents
    /\ \E event \in ChatEvents :
          requests' = [requests EXCEPT
                          !["r1"].event_queue = Append(@, event),
                          ![r].puts = Append(@, event)]
    /\ UNCHANGED outsideChat

\* for event in stream: event_queue.put(event), on the request's own queue
ChatPutEvent(r) ==
    /\ requests[r].thread = "running"
    /\ Len(EventsOf(requests[r].puts)) < MaxChatEvents
    /\ \E event \in ChatEvents :
          requests' = [requests EXCEPT
                          ![r].event_queue = Append(@, event),
                          ![r].puts = Append(@, event)]
    /\ UNCHANGED outsideChat

ChatPutEnd(r) ==
    /\ requests[r].thread = "running"
    /\ requests' = [requests EXCEPT
                       ![r].event_queue = Append(@, EndSentinel),
                       ![r].puts = Append(@, EndSentinel),
                       ![r].stream_done = TRUE,
                       ![r].thread = "exited"]
    /\ UNCHANGED outsideChat

ChatPutFault(r) ==
    /\ requests[r].thread = "running"
    /\ requests' = [requests EXCEPT
                       ![r].event_queue = Append(@, FaultSentinel(UpstreamFault)),
                       ![r].puts = Append(@, FaultSentinel(UpstreamFault)),
                       ![r].stream_done = TRUE,
                       ![r].thread = "exited"]
    /\ UNCHANGED outsideChat

ChatGetEnd(r) ==
    /\ requests[r].pc = "get"
    /\ requests[r].event_queue # <<>>
    /\ Head(requests[r].event_queue) = EndSentinel
    /\ requests' = [requests EXCEPT ![r].event_queue = Tail(@),
                                    ![r].pc = "closed"]
    /\ UNCHANGED outsideChat

ChatGetFault(r) ==
    /\ requests[r].pc = "get"
    /\ requests[r].event_queue # <<>>
    /\ ~IsEvent(Head(requests[r].event_queue))
    /\ Head(requests[r].event_queue) # EndSentinel
    /\ requests' = [requests EXCEPT
                       ![r].event_queue = Tail(@),
                       ![r].frames =
                           Append(@, ErrorFrame(Head(requests[r].event_queue).message)),
                       ![r].pc = "closed"]
    /\ UNCHANGED outsideChat

ChatGetEvent(r) ==
    /\ requests[r].pc = "get"
    /\ requests[r].event_queue # <<>>
    /\ IsEvent(Head(requests[r].event_queue))
    /\ LET event == Head(requests[r].event_queue)
           h == HandleEvent(event, requests[r].pending_tools,
                            requests[r].pending_args)
       IN  requests' = [requests EXCEPT
               ![r].event_queue = Tail(@),
               ![r].received = Append(@, event),
               ![r].pending_tools = h.tools,
               ![r].pending_args = h.args,
               ![r].frames = IF h.fault # ""
                             THEN @ \o h.frames \o <<ErrorFrame(h.fault)>>
                             ELSE @ \o h.frames,
               ![r].pc = IF h.fault # "" THEN "closed" ELSE "get"]
    /\ UNCHANGED outsideChat

ChatGetTimeout(r) ==
    /\ requests[r].pc = "get"
    /\ requests[r].event_queue = <<>>
    /\ requests' = [requests EXCEPT ![r].pc = "sleep"]
    /\ UNCHANGED outsideChat

ChatWake(r) ==
    /\ requests[r].pc = "sleep"
    /\ requests' = [requests EXCEPT ![r].pc = "get"]
    /\ UNCHANGED outsideChat

\* the downstream client goes away: the StreamingResponse task is cancelled
\* and the generator is never resumed; nothing tells stream_thread
Disconnect(r) ==
    /\ requests[r].pc \in {"start", "get", "sleep"}
    /\ requests' = [requests EXCEPT ![r].pc = "cancelled"]
    /\ UNCHANGED outsideChat

NextChat ==
    \/ \E r \in Requests : ChatStartStream(r)
    \/ \E r \in Requests : ChatStartFails(r)
    \/ \E r \in Requests : ChatPutEvent(r)
    \/ \E r \in Requests : ChatPutEnd(r)
    \/ \E r \in Requests : ChatPutFault(r)
    \/ \E r \in Requests : ChatGetEnd(r)
    \/ \E r \in Requests : ChatGetFault(r)
    \/ \E r \in Requests : ChatGetEvent(r)
    \/ \E r \in Requests : ChatGetTimeout(r)
    \/ \E r \in Requests : ChatWake(r)
    \/ \E r \in Requests : Disconnect(r)

SpecChat == Init /\ [][NextChat]_vars

----------------------------------------------------------------------------
(* The main loop of the published-app clients (foundry-app-client.py and   *)
(* foundry-app-client-streaming.py): the history is kept by the client and *)
(* sent in full with every request.                                        *)

\* requests per session explored
MaxTurns == 2

S_new == <<"n", "e", "w">>
S_hi == <<"h", "i">>
S_off == <<"o", "f", "f">>
S_ok == <<"o", "k">>

\* the lines input() may return
TypedLines ==
    { <<>>, <<" ">>, S_hi, <<" ">> \o S_hi \o <<" ">>, S_new,
      <<"N", "e", "w", " ">>, S_off }

\* response.output_text, or the concatenation of the streamed text deltas
ResponseTexts == { <<>>, S_ok }

\* str.lower()
LowerChar(c) ==
    CASE c = "N" -> "n" [] c = "E" -> "e" [] c = "W" -> "w" [] OTHER -> c
Lower(str) == [i \in 1..Len(str) |-> LowerChar(str[i])]

\* str.strip()
RECURSIVE LStrip(_)
LStrip(str) ==
    IF str # <<>> /\ Head(str) = " " THEN LStrip(Tail(str)) ELSE str
RECURSIVE RStrip(_)
RStrip(str) ==
    IF str # <<>> /\ str[Len(str)] = " "
    THEN RStrip(SubSeq(str, 1, Len(str) - 1)) ELSE str
Strip(str) == RStrip(LStrip(str))

\* the commands of the streaming client other than 'new'
LogCommands == { S_off }

\* the line is sent to the application as a user message
IsMessage(kind, line) ==
    /\ Strip(line) # <<>>
    /\ Lower(Strip(line)) # S_new
    /\ kind = "streaming" => Lower(Strip(line)) \notin LogCommands

\* variant: only the new message is sent
build_conversation_input_Stateless(history, new_message) ==
    << [type |-> "message", role |-> "user", content |-> new_message] >>

build_conversation_input(history, new_message) ==
    [i \in 1..Len(history) |->
        [type |-> "message", role |-> history[i].role,
         content |-> history[i].content]]
    \o << [type |-> "message", role |-> "user", content |-> new_message] >>

\* the requests the history holds
TurnsOf(history) ==
    Cardinality({i \in 1..Len(history) : history[i].role = "user"})

\* what a step of the client leaves alone
outsideClient == <<relayVars, chatVars, approvalVars, cliVars, projectVars>>

\* main() starts: conversation_history = []
Main ==
    /\ client_kind = "none"
    /\ client_kind' \in {"plain", "streaming"}
    /\ conversation_history' = <<>>
    /\ UNCHANGED <<user_input, input_items, response_text, turn>>
    /\ UNCHANGED outsideClient

\* if not user_input: continue
EmptyInput ==
    /\ client_kind \in {"plain", "streaming"}
    /\ \E line \in TypedLines :
          /\ Strip(line) = <<>>
          /\ user_input' = Strip(line)
    /\ turn' = "empty"
    /\ UNCHANGED <<client_kind, conversation_history, input_items, response_text>>
    /\ UNCHANGED outsideClient

\* if user_input.lower() == 'new': conversation_history = []
NewConversation ==
    /\ client_kind \in {"plain", "streaming"}
    /\ \E line \in TypedLines :
          /\ Lower(Strip(line)) = S_new
          /\ user_input' = Strip(line)
    /\ conversation_history' = <<>>
    /\ turn' = "new"
    /\ UNCHANGED <<client_kind, input_items, response_text>>
    /\ UNCHANGED outsideClient

\* 'debug', 'info', 'quiet', 'off', 'tools' in the streaming client
LogCommand ==
    /\ client_kind = "streaming"
    /\ \E line \in TypedLines :
          /\ Lower(Strip(line)) \in LogCommands
          /\ user_input' = Strip(line)
    /\ turn' = "command"
    /\ UNCHANGED <<client_kind, conversation_history, input_items, response_text>>
    /\ UNCHANGED outsideClient

\* the request is built and sent and the response comes back whole, or the
\* stream ends or breaks on an 'error' event with the text received so far
Answered ==
    /\ client_kind \in {"plain", "streaming"}
    /\ TurnsOf(conversation_history) < MaxTurns
    /\ \E line \in TypedLines, text \in ResponseTexts :
          /\ IsMessage(client_kind, line)
          /\ user_input' = Strip(line)
          /\ input_items' = build_conversation_input(conversation_history,
                                                     Strip(line))
          /\ response_text' = text
          /\ conversation_history' =
                conversation_history
                \o << [role |-> "user", content |-> Strip(line)] >>
                \o (IF text # <<>>
                    THEN << [role |-> "assistant", content |-> text] >>
                    ELSE <<>>)
    /\ turn' = "answered"
    /\ UNCHANGED client_kind
    /\ UNCHANGED outsideClient

\* refresh_token() raises before the request is built
RefreshRaises ==
    /\ client_kind \in {"plain", "streaming"}
    /\ \E line \in TypedLines :
          /\ IsMessage(client_kind, line)
          /\ user_input' = Strip(line)
    /\ turn' = "refresh_raised"
    /\ UNCHANGED <<client_kind, conversation_history, input_items, response_text>>
    /\ UNCHANGED outsideClient

\* responses.create, or the iteration of the stream, raises
RequestRaises ==
    /\ client_kind \in {"plain", "streaming"}
    /\ \E line \in TypedLines :
          /\ IsMessage(client_kind, line)
          /\ user_input' = Strip(line)
          /\ input_items' = build_conversation_input(conversation_history,
                                                     Strip(line))
    /\ turn' = "request_raised"
    /\ UNCHANGED <<client_kind, conversation_history, response_text>>
    /\ UNCHANGED outsideClient

\* Ctrl+C: sys.exit(0)
Interrupt ==
    /\ client_kind \in {"plain", "streaming"}
    /\ client_kind' = "exited"
    /\ UNCHANGED <<user_input, conversation_history, input_items,
                   response_text, turn>>
    /\ UNCHANGED outsideClient

NextClient ==
    \/ Main
    \/ EmptyInput
    \/ NewConversation
    \/ LogCommand
    \/ Answered
    \/ RefreshRaises
    \/ RequestRaises
    \/ Interrupt

SpecClient == Init /\ [][NextClient]_vars

----------------------------------------------------------------------------
(* process_response_with_mcp_approval of the project clients               *)
(* (clients/project/foundry-agent-app.py and agent-app.py)                 *)

\* continuation requests explored
MaxCalls == 2

MessageOutput == [type |-> "message"]
ApprovalRequest(id) == [type |-> "mcp_approval_request", id |-> id]
\* an output item without a type attribute
UntypedOutput == [id |-> "u"]

\* the outputs a response of the service may carry
Outputs ==
    { <<>>, <<MessageOutput>>, <<ApprovalRequest("a")>>,
      <<ApprovalRequest("a"), MessageOutput, ApprovalRequest("b")>>,
      <<UntypedOutput, ApprovalRequest("b")>>, <<UntypedOutput>> }

\* the response objects responses.create may return
ServiceResponses ==
    [id : {"resp_x", "resp_y"}, status : {"completed", "incomplete"},
     output : Outputs]

\* hasattr(item, 'type') and item.type == "mcp_approval_request"
IsApprovalRequest(item) ==
    "type" \in DOMAIN item /\ item.type = "mcp_approval_request"

\* the condition of the while loop
LoopCondition(resp) ==
    \/ resp.status = "incomplete"
    \/ /\ "output" \in DOMAIN resp
       /\ \E i \in 1..Len(resp.output) : IsApprovalRequest(resp.output[i])

\* approval_requests
ApprovalRequestsOf(resp) == SelectSeq(resp.output, IsApprovalRequest)

\* variant: only the first request is approved
ApprovalsFor_FirstOnly(reqs) ==
    << [type |-> "mcp_approval_response", approve |-> TRUE,
        approval_request_id |-> reqs[1].id] >>

\* approvals, one per request, in order
ApprovalsFor(reqs) ==
    [i \in 1..Len(reqs) |->
        [type |-> "mcp_approval_response", approve |-> TRUE,
         approval_request_id |-> reqs[i].id]]

\* what a step of the approval loop leaves alone
outsideApproval == <<relayVars, chatVars, clientVars, cliVars, projectVars>>

\* the function is called with the response of the first request
Called ==
    /\ approval_pc = "idle"
    /\ response' \in ServiceResponses
    /\ approval_pc' = "loop"
    /\ UNCHANGED <<approvals, previous_response_id, calls>>
    /\ UNCHANGED outsideApproval

\* one pass of the loop: the requests are approved and the continuation
\* request returns the next response
Continue ==
    /\ approval_pc = "loop"
    /\ LoopCondition(response)
    /\ ApprovalRequestsOf(response) # <<>>
    /\ calls < MaxCalls
    /\ approvals' = ApprovalsFor(ApprovalRequestsOf(response))
    /\ previous_response_id' = response.id
    /\ response' \in ServiceResponses
    /\ calls' = calls + 1
    /\ UNCHANGED approval_pc
    /\ UNCHANGED outsideApproval

\* the continuation request raises: the function is left by the exception
ContinueRaises ==
    /\ approval_pc = "loop"
    /\ LoopCondition(response)
    /\ ApprovalRequestsOf(response) # <<>>
    /\ calls < MaxCalls
    /\ approvals' = ApprovalsFor(ApprovalRequestsOf(response))
    /\ previous_response_id' = response.id
    /\ approval_pc' = "raised"
    /\ UNCHANGED <<response, calls>>
    /\ UNCHANGED outsideApproval

\* the loop condition is false, or approval_requests is empty: return response
Return ==
    /\ approval_pc = "loop"
    /\ \/ ~LoopCondition(response)
       \/ ApprovalRequestsOf(response) = <<>>
    /\ approval_pc' = "returned"
    /\ UNCHANGED <<response, approvals, previous_response_id, calls>>
    /\ UNCHANGED outsideApproval

NextApproval ==
    \/ Called
    \/ Continue
    \/ ContinueRaises
    \/ Return

SpecApproval == Init /\ [][NextApproval]_vars

----------------------------------------------------------------------------
(* stream_response of clients/published/foundry-app-client-streaming.py:   *)
(* one call, the for loop over the stream, the returned triple              *)

\* events consumed by one call, beyond the reference run of the client
MaxCliEvents == 3

outsideCli == <<relayVars, chatVars, clientVars, approvalVars, projectVars>>

\* the events the service may send to the client
CliEvents ==
    UpstreamEvents \cup {CallCompleted("2"), ArgsDone("2", ArgsFull)}

\* a run that announces, completes and re-completes a call, streams text,
\* finishes a function call and then reports an error
CliTrace ==
    << ItemAdded(McpItem), ArgsDone("1", ArgsFull), CallCompleted("1"),
       CallCompleted("1"), TextDelta(S_a), ItemDone(FuncItemDone),
       ErrorEvent >>

CliBound(seq) == Len(seq) <= MaxCliEvents \/ IsPrefix(seq, CliTrace)

\* the locals of the loop and how the body left: "continue", "break", "raise"
CliLocals(text, final, calls_, tools, args, how) ==
    [full_text |-> text, final_response |-> final, tool_calls |-> calls_,
     pending_tool_calls |-> tools, pending_mcp_args |-> args, exit |-> how]

\* getattr(item, 'name', None) or getattr(item, 'server_label', 'unknown_tool')
CliToolName(item) ==
    IF "name" \in DOMAIN item /\ item.name # NoneId /\ item.name # ""
    THEN item.name
    ELSE GetAttr(item, "server_label", "unknown_tool")

\* response.output_item.added
CliOnItemAdded(event, l) ==
    IF "item" \notin DOMAIN event THEN l
    ELSE LET item == event.item
             item_type == GetAttr(item, "type", NoneId)
             item_id == GetAttr(item, "id", NoneId)
         IN  IF item_type = "mcp_call"
             THEN [l EXCEPT !.pending_tool_calls =
                      DictSet(@, item_id,
                              [name |-> CliToolName(item), arguments |-> <<>>,
                               id |-> item_id])]
             ELSE IF item_type = "function_call"
             THEN [l EXCEPT !.pending_tool_calls =
                      DictSet(@, item_id,
                              [name |-> GetAttr(item, "name", "unknown_tool"),
                               arguments |-> <<>>,
                               call_id |-> GetAttr(item, "call_id", item_id)])]
             ELSE l

\* response.mcp_call.in_progress
CliOnInProgress(event, l) ==
    LET item_id == GetAttr(event, "item_id", NoneId) IN
    IF IdTruthy(item_id) /\ item_id \notin DOMAIN l.pending_mcp_args
    THEN [l EXCEPT !.pending_mcp_args = DictSet(@, item_id, <<>>)]
    ELSE l

\* response.mcp_call_arguments.delta
CliOnArgsDelta(event, l) ==
    LET item_id == GetAttr(event, "item_id", NoneId)
        delta == GetAttr(event, "delta", <<>>)
        before == IF item_id \in DOMAIN l.pending_mcp_args
                  THEN l.pending_mcp_args[item_id] ELSE <<>>
    IN  IF IdTruthy(item_id)
        THEN [l EXCEPT !.pending_mcp_args = DictSet(@, item_id, before \o delta)]
        ELSE l

\* response.mcp_call_arguments.done
CliOnArgsDone(event, l) ==
    LET item_id == GetAttr(event, "item_id", NoneId)
        arguments == GetAttr(event, "arguments", <<"{", "}">>)
    IN  IF IdTruthy(item_id) /\ item_id \in DOMAIN l.pending_tool_calls
        THEN [l EXCEPT !.pending_tool_calls[item_id] =
                          [x \in DOMAIN @ \cup {"arguments"} |->
                             IF x = "arguments" THEN arguments ELSE @[x]]]
        ELSE l

\* variant: a completion is recorded whether or not the call was announced
CliOnCallCompleted_Unguarded(event, l) ==
    LET item_id == GetAttr(event, "item_id", NoneId)
        known == item_id \in DOMAIN l.pending_tool_calls
    IN  [l EXCEPT
           !.tool_calls =
               Append(@, [name |-> IF known THEN l.pending_tool_calls[item_id].name
                                   ELSE "unknown_tool",
                          arguments |-> IF known
                                        THEN l.pending_tool_calls[item_id].arguments
                                        ELSE <<>>,
                          id |-> item_id]),
           !.pending_tool_calls = DictPop(@, item_id),
           !.pending_mcp_args = DictPop(@, item_id)]

\* response.mcp_call.completed
CliOnCallCompleted(event, l) ==
    LET item_id == GetAttr(event, "item_id", NoneId)
        l1 == IF IdTruthy(item_id) /\ item_id \in DOMAIN l.pending_tool_calls
              THEN LET tool_info == l.pending_tool_calls[item_id] IN
                   [l EXCEPT
                      !.tool_calls =
                          Append(@, [name |-> tool_info.name,
                                     arguments |->
                                         GetAttr(tool_info, "arguments", <<>>),
                                     id |-> item_id]),
                      !.pending_tool_calls = DictPop(@, item_id)]
              ELSE l
    IN  [l1 EXCEPT !.pending_mcp_args = DictPop(@, item_id)]

\* response.output_item.done
CliOnItemDone(event, l) ==
    IF "item" \notin DOMAIN event THEN l
    ELSE LET item == event.item
             item_type == GetAttr(item, "type", NoneId)
             item_id == GetAttr(item, "id", NoneId)
         IN  IF item_type = "function_call"
             THEN [l EXCEPT
                     !.tool_calls =
                         Append(@, [name |-> GetAttr(item, "name", "unknown_tool"),
                                    arguments |->
                                        GetAttr(item, "arguments", <<"{", "}">>),
                                    call_id |-> GetAttr(item, "call_id", item_id)]),
                     !.pending_tool_calls = DictPop(@, item_id)]
             ELSE IF item_type = "message"
             THEN LET content == GetAttr(item, "content", <<>>) IN
                  IF Len(content) = 0 THEN l
                  ELSE LET last_content == content[Len(content)] IN
                       IF GetAttr(last_content, "type", NoneId) # "output_text"
                       THEN l
                       ELSE \* the citations are printed; print(ann.url) raises
                            \* on a url_citation without that attribute
                            IF CollectCitations(
                                 GetAttr(last_content, "annotations", <<>>), 1).fault
                               # ""
                            THEN [l EXCEPT !.exit = "raise"]
                            ELSE l
             ELSE l

\* the body of 'for event in stream' for one event
CliHandle(event, l) ==
    LET event_type == GetAttr(event, "type", NoneId) IN
    CASE event_type = "response.output_item.added" -> CliOnItemAdded(event, l)
      [] event_type = "response.mcp_call.in_progress" -> CliOnInProgress(event, l)
      [] event_type = "response.mcp_call_arguments.delta" -> CliOnArgsDelta(event, l)
      [] event_type = "response.mcp_call_arguments.done" -> CliOnArgsDone(event, l)
      [] event_type = "response.mcp_call.completed" -> CliOnCallCompleted(event, l)
      [] event_type = "response.output_item.done" -> CliOnItemDone(event, l)
      [] event_type = "response.output_text.delta" ->
             [l EXCEPT !.full_text = @ \o GetAttr(event, "delta", <<>>)]
      [] event_type = "response.completed" ->
             [l EXCEPT !.final_response = GetAttr(event, "response", NoneId)]
      [] event_type = "error" -> [l EXCEPT !.exit = "break"]
      [] OTHER -> l

\* client.responses.create(stream=True, ...) returns; the locals are set up
CliCall ==
    /\ cli_pc = "idle"
    /\ cli_pc' = "loop"
    /\ consumed' = <<>>
    /\ full_text' = <<>>
    /\ final_response' = NoneId
    /\ tool_calls' = <<>>
    /\ pending_tool_calls' = EmptyTable
    /\ pending_mcp_args' = EmptyTable
    /\ UNCHANGED outsideCli

\* client.responses.create raises: stream_response raises before the loop
CliCallFails ==
    /\ cli_pc = "idle"
    /\ cli_pc' = "raised"
    /\ UNCHANGED <<consumed, full_text, final_response, tool_calls,
                   pending_tool_calls, pending_mcp_args>>
    /\ UNCHANGED outsideCli

\* the stream yields one more event and the body of the loop runs on it
CliNextEvent ==
    /\ cli_pc = "loop"
    /\ \E event \in CliEvents :
          /\ CliBound(Append(consumed, event))
          /\ LET l == CliHandle(event,
                         CliLocals(full_text, final_response, tool_calls,
                                   pending_tool_calls, pending_mcp_args,
                                   "continue"))
             IN  /\ consumed' = Append(consumed, event)
                 /\ full_text' = l.full_text
                 /\ final_response' = l.final_response
                 /\ tool_calls' = l.tool_calls
                 /\ pending_tool_calls' = l.pending_tool_calls
                 /\ pending_mcp_args' = l.pending_mcp_args
                 /\ cli_pc' = CASE l.exit = "continue" -> "loop"
                                [] l.exit = "break" -> "returned"
                                [] l.exit = "raise" -> "raised"
    /\ UNCHANGED outsideCli

\* the stream is exhausted: return full_text, final_response, tool_calls
CliStreamEnds ==
    /\ cli_pc = "loop"
    /\ cli_pc' = "returned"
    /\ UNCHANGED <<consumed, full_text, final_response, tool_calls,
                   pending_tool_calls, pending_mcp_args>>
    /\ UNCHANGED outsideCli

\* the iteration over the stream raises: stream_response raises
CliStreamRaises ==
    /\ cli_pc = "loop"
    /\ cli_pc' = "raised"
    /\ UNCHANGED <<consumed, full_text, final_response, tool_calls,
                   pending_tool_calls, pending_mcp_args>>
    /\ UNCHANGED outsideCli

NextCli ==
    \/ CliCall
    \/ CliCallFails
    \/ CliNextEvent
    \/ CliStreamEnds
    \/ CliStreamRaises

SpecCli == Init /\ [][NextCli]_vars

----------------------------------------------------------------------------
(* main() of clients/project/foundry-agent-app.py: one conversation on the *)
(* service, follow-up requests chained by previous_response_id             *)

\* 'new' commands and requests per session explored
MaxPasses == 4

outsideProject == <<relayVars, chatVars, clientVars, approvalVars, cliVars>>

\* the responses process_response_with_mcp_approval can return
ReturnedResponses ==
    {r \in ServiceResponses : ~LoopCondition(r) \/ ApprovalRequestsOf(r) = <<>>}

\* the line is sent to the agent
IsProjectMessage(line) == Strip(line) # <<>> /\ Lower(Strip(line)) # S_new

\* the keyword arguments of responses.create in the loop (extra_body, the
\* agent reference, is the same in both branches)
ProjectRequest(conv, last, message) ==
    IF last = NoResponse
    THEN [conversation |-> conv, input |-> message]
    ELSE [previous_response_id |-> last.id, input |-> message]

\* main(): conversation = create_conversation(); last_response = None
ProjectMain ==
    /\ project_pc = "start"
    /\ project_pc' = "prompt"
    /\ conversations_created' = conversations_created + 1
    /\ conversation' = conversations_created + 1
    /\ last_response' = NoResponse
    /\ UNCHANGED <<project_turn, session_log>>
    /\ UNCHANGED outsideProject

\* the first create_conversation() raises: main() ends with the exception
ProjectMainFails ==
    /\ project_pc = "start"
    /\ project_pc' = "exited"
    /\ UNCHANGED <<conversation, conversations_created, last_response,
                   project_turn, session_log>>
    /\ UNCHANGED outsideProject

\* if not user_input: continue
ProjectEmptyInput ==
    /\ project_pc = "prompt"
    /\ \E line \in TypedLines : Strip(line) = <<>>
    /\ project_turn' = "empty"
    /\ UNCHANGED <<project_pc, conversation, conversations_created,
                   last_response, session_log>>
    /\ UNCHANGED outsideProject

\* variant: 'new' creates a conversation but keeps the last response
ProjectNew_KeepsChain ==
    /\ project_pc = "prompt"
    /\ Len(session_log) < MaxPasses
    /\ \E line \in TypedLines : Lower(Strip(line)) = S_new
    /\ conversations_created' = conversations_created + 1
    /\ conversation' = conversations_created + 1
    /\ project_turn' = "new"
    /\ session_log' = Append(session_log,
                             [kind |-> "new",
                              conversation |-> conversations_created + 1])
    /\ UNCHANGED <<project_pc, last_response>>
    /\ UNCHANGED outsideProject

\* 'new': conversation = create_conversation(); last_response = None
ProjectNew ==
    /\ project_pc = "prompt"
    /\ Len(session_log) < MaxPasses
    /\ \E line \in TypedLines : Lower(Strip(line)) = S_new
    /\ conversations_created' = conversations_created + 1
    /\ conversation' = conversations_created + 1
    /\ last_response' = NoResponse
    /\ project_turn' = "new"
    /\ session_log' = Append(session_log,
                             [kind |-> "new",
                              conversation |-> conversations_created + 1])
    /\ UNCHANGED project_pc
    /\ UNCHANGED outsideProject

\* 'new' and create_conversation() raises: the handler prints the error,
\* neither assignment has run
ProjectNewFails ==
    /\ project_pc = "prompt"
    /\ Len(session_log) < MaxPasses
    /\ \E line \in TypedLines : Lower(Strip(line)) = S_new
    /\ project_turn' = "error"
    /\ session_log' = Append(session_log, [kind |-> "new_failed"])
    /\ UNCHANGED <<project_pc, conversation, conversations_created, last_response>>
    /\ UNCHANGED outsideProject

\* a message is sent, the approval loop returns: last_response = response
ProjectSend ==
    /\ project_pc = "prompt"
    /\ Len(session_log) < MaxPasses
    /\ \E line \in TypedLines, final \in ReturnedResponses :
          /\ IsProjectMessage(line)
          /\ last_response' = final
          /\ session_log' =
                 Append(session_log,
                        [kind |-> "message",
                         request |-> ProjectRequest(conversation, last_response,
                                                    Strip(line)),
                         result |-> final.id])
    /\ project_turn' = "answered"
    /\ UNCHANGED <<project_pc, conversation, conversations_created>>
    /\ UNCHANGED outsideProject

\* a message is sent and responses.create or the approval loop raises:
\* the handler prints the error, last_response = response has not run
ProjectSendRaises ==
    /\ project_pc = "prompt"
    /\ Len(session_log) < MaxPasses
    /\ \E line \in TypedLines :
          /\ IsProjectMessage(line)
          /\ session_log' =
                 Append(session_log,
                        [kind |-> "message",
                         request |-> ProjectRequest(conversation, last_response,
                                                    Strip(line)),
                         result |-> "raised"])
    /\ project_turn' = "error"
    /\ UNCHANGED <<project_pc, conversation, conversations_created, last_response>>
    /\ UNCHANGED outsideProject

\* KeyboardInterrupt: the traces are flushed and sys.exit(0)
ProjectInterrupt ==
    /\ project_pc = "prompt"
    /\ project_pc' = "exited"
    /\ UNCHANGED <<conversation, conversations_created, last_response,
                   project_turn, session_log>>
    /\ UNCHANGED outsideProject

NextProject ==
    \/ ProjectMain
    \/ ProjectMainFails
    \/ ProjectEmptyInput
    \/ ProjectNew
    \/ ProjectNewFails
    \/ ProjectSend
    \/ ProjectSendRaises
    \/ ProjectInterrupt

SpecProject == Init /\ [][NextProject]_vars

----------------------------------------------------------------------------
(* Observations on a frame sequence and on an event sequence *)

IsTerminalFrame(f) == f.type \in {"done", "error"}
HasTerminal(fs) == \E i \in 1..Len(fs) : IsTerminalFrame(fs[i])

\* concatenation of the 'content' of the text_delta frames of fs
RECURSIVE TextOf(_)
TextOf(fs) ==
    IF fs = <<>> THEN <<>>
    ELSE (IF Head(fs).type = "text_delta" THEN Head(fs).content ELSE <<>>)
         \o TextOf(Tail(fs))

\* concatenation of the 'delta' of the output_text.delta events of es
RECURSIVE UpstreamText(_)
UpstreamText(es) ==
    IF es = <<>> THEN <<>>
    ELSE (IF EvType(Head(es)) = "response.output_text.delta"
          THEN Head(es).delta ELSE <<>>)
         \o UpstreamText(Tail(es))

\* the request is over on both sides: the producer thread has exited and
\* the generator has returned
RequestOver == thread = "exited" /\ pc = "closed"

----------------------------------------------------------------------------
(* C1 .. C10 *)

\* C1 (as claimed): once a 'done' or an 'error' frame has been emitted, no
\* further frame is emitted on the stream.
C1_Terminality == [][HasTerminal(frames) => frames' = frames]_vars

\* C2 (as claimed): when the generator returns after the upstream source has
\* finished, the frames contain a 'done' or an 'error' frame.
C2_TerminalMandatory == RequestOver => HasTerminal(frames)

\* C3 (as claimed): when the request is over, the text of the text_delta
\* frames is the concatenation of all upstream text deltas, in order.
C3_TextFidelity == RequestOver => TextOf(frames) = UpstreamText(upstream)

\* concatenation of the argument-delta fragments of es for one id
RECURSIVE DeltasFor(_, _)
DeltasFor(es, id) ==
    IF es = <<>> THEN <<>>
    ELSE (IF EvType(Head(es)) = "response.mcp_call_arguments.delta"
             /\ Head(es).item_id = id
          THEN Head(es).delta ELSE <<>>)
         \o DeltasFor(Tail(es), id)

\* a text as a tool_args payload: parsed as JSON when valid, raw otherwise
PayloadOf(text) ==
    IF JsonLoads(text).ok THEN Parsed(JsonLoads(text).value) ELSE Raw(text)

Last(seq) == seq[Len(seq)]

\* a tool_start frame for id is among the first n frames
AnnouncedBy(fs, n, id) ==
    \E j \in 1..n : fs[j].type = "tool_start" /\ fs[j].id = id

\* the id received argument deltas and its tool_args frames come from
\* arguments.done events only
McpArgsOnly(es, id) ==
    /\ DeltasFor(es, id) # <<>>
    /\ \A i \in 1..Len(es) :
          EvType(es[i]) = "response.output_item.done"
              => GetAttr(es[i].item, "id", NoneId) # id

\* C4 (as claimed): when a tool_done frame has just been emitted for an id
\* that received argument deltas, every tool_args frame emitted for that id
\* after its tool_start carries the concatenation of those deltas.
C4_ArgsAreDeltas ==
    (/\ frames # <<>>
     /\ Last(frames).type = "tool_done"
     /\ received # <<>>
     /\ Last(received) = CallCompleted(Last(frames).id)
     /\ McpArgsOnly(received, Last(frames).id)) =>
        \A k \in 1..Len(frames) :
            (/\ frames[k].type = "tool_args"
             /\ frames[k].id = Last(frames).id
             /\ AnnouncedBy(frames, k, frames[k].id))
            => frames[k].arguments
                   = PayloadOf(DeltasFor(received, Last(frames).id))

\* the loop is about to handle an arguments.delta or a call.completed event
\* whose id no tool_start frame has announced
HeadIsUnannounced ==
    /\ pc = "get"
    /\ event_queue # <<>>
    /\ IsEvent(Head(event_queue))
    /\ EvType(Head(event_queue)) \in {"response.mcp_call_arguments.delta",
                                   "response.mcp_call.completed"}
    /\ ~AnnouncedBy(frames, Len(frames), Head(event_queue).item_id)

\* C5 (as claimed): handling an arguments.delta or call.completed event for
\* an id that was never announced emits no frame and does not end the loop.
C5_UnknownIdSilent ==
    [][(HeadIsUnannounced /\ received' # received)
       => (frames' = frames /\ pc' = "get")]_vars

\* the five frames of the reference trace
ReferenceFrames ==
    << ToolStartFrame("1", "search"),
       ToolArgsFrame("1", Parsed(ArgsFull)),
       ToolDoneFrame("1", "search"),
       TextDeltaFrame(S_hello),
       DoneFrame >>

\* C6: when the upstream has yielded exactly the reference trace and then
\* ended, and the generator has returned, the frames emitted are exactly
\* tool_start, tool_args, tool_done, text_delta, done with the payloads of the
\* trace; while the trace is being relayed the frames are a prefix of them.
C6_ReferenceTrace ==
    /\ (received # <<>> /\ IsPrefix(puts, ReferenceTrace \o <<EndSentinel>>))
        => IsPrefix(frames, ReferenceFrames)
    /\ (upstream = ReferenceTrace /\ RequestOver
            /\ puts = ReferenceTrace \o <<EndSentinel>>)
        => frames = ReferenceFrames

C6_Witness ==
    /\ upstream = ReferenceTrace
    /\ RequestOver
    /\ puts = ReferenceTrace \o <<EndSentinel>>
    /\ Len(frames) = 5

\* the fault sentinel has been put and the loop has taken it from the queue
FaultTaken ==
    /\ puts # <<>>
    /\ ~IsEvent(Last(puts))
    /\ Last(puts) # EndSentinel
    /\ event_queue = <<>>

\* no event of es makes the loop emit a terminal frame
NoTerminalCause(es) ==
    \A i \in 1..Len(es) :
        EvType(es[i]) \notin {"response.completed", "error"}

CountType(fs, t) == Cardinality({i \in 1..Len(fs) : fs[i].type = t})

C7_FaultInvariant ==
    (FaultTaken /\ NoTerminalCause(received)) =>
        /\ pc = "closed"
        /\ thread = "exited"
        /\ frames # <<>>
        /\ Last(frames) = ErrorFrame(Last(puts).message)
        /\ CountType(frames, "error") = 1
        /\ CountType(frames, "done") = 0
        /\ TextOf(frames) = UpstreamText(upstream)

\* C7: once the loop has taken the producer's fault from the queue, after
\* events none of which caused a terminal frame, the frames end with the one
\* and only 'error' frame, which carries the fault's message, the generator
\* has returned, the thread has exited (no second request is made), and
\* nothing changes any more on the consumer side.
C7_UpstreamFault ==
    /\ []C7_FaultInvariant
    /\ [][FaultTaken => (frames' = frames /\ upstream' = upstream
                            /\ puts' = puts /\ pc' = pc)]_vars

\* the fault arrives after the relay has forwarded two text_delta frames
C7_Witness ==
    /\ FaultTaken
    /\ Len(frames) = 3
    /\ frames[1].type = "text_delta"
    /\ frames[2].type = "text_delta"
    /\ frames[3] = ErrorFrame(UpstreamFault)

CountEnd(q) == Cardinality({i \in 1..Len(q) : q[i] = EndSentinel})

\* the end sentinel has been put and the loop has taken it from the queue
EndTaken ==
    /\ puts # <<>>
    /\ Last(puts) = EndSentinel
    /\ event_queue = <<>>

C8_DeliveryInvariant ==
    /\ received \o EventsOf(event_queue) = upstream
    /\ CountEnd(puts) <= 1
    /\ CountEnd(puts) = 1 => puts = upstream \o <<EndSentinel>>
    /\ EndTaken => (pc = "closed" /\ received = upstream)

\* C8: under every interleaving, the events the loop has received followed
\* by the events still queued are exactly the events the upstream yielded
\* (each once, in order); None is put at most once and only after the last
\* event; when the loop has taken it, it has received every event and it
\* has stopped polling for good.
C8_BridgeDelivery ==
    /\ []C8_DeliveryInvariant
    /\ [][pc = "closed" => (pc' = "closed" /\ received' = received
                              /\ Len(event_queue') >= Len(event_queue))]_vars

\* the loop received three events while the producer ran ahead and behind it
C8_Witness ==
    /\ EndTaken
    /\ pc = "closed"
    /\ Len(received) = 3
    /\ received[1] # received[2]

IsFault(item) == ~IsEvent(item) /\ item # EndSentinel
SentinelsPut == {i \in 1..Len(puts) : ~IsEvent(puts[i])}

C9_FailureInvariant ==
    /\ Cardinality(SentinelsPut) = (IF thread = "exited" THEN 1 ELSE 0)
    /\ \A i \in SentinelsPut : i = Len(puts)
    /\ (puts # <<>> /\ IsFault(Last(puts))) =>
           /\ puts = upstream \o <<FaultSentinel(UpstreamFault)>>
           /\ stream_done

\* C9: when the upstream raises, the exception is put after all the events
\* yielded before it and nothing is put afterwards; a request whose thread
\* has exited has put exactly one sentinel, the end or the fault one, and a
\* thread that is still running has put none.
C9_BridgeFailure ==
    /\ []C9_FailureInvariant
    /\ [][thread = "exited" => (puts' = puts /\ thread' = thread)]_vars

\* the iteration raised after two events
C9_Witness ==
    /\ Len(puts) = 3
    /\ IsFault(puts[3])
    /\ IsEvent(puts[1]) /\ IsEvent(puts[2])
    /\ thread = "exited"

\* frame f can be the effect of event e alone
CausedBy(f, e) ==
    CASE f.type = "text_delta" ->
             EvType(e) = "response.output_text.delta" /\ f.content = e.delta
      [] f.type = "tool_start" ->
             /\ EvType(e) = "response.output_item.added"
             /\ e.item.type \in {"mcp_call", "function_call"}
             /\ f.id = e.item.id
      [] f.type = "tool_discovery" ->
             EvType(e) = "response.output_item.added"
                 /\ e.item.type = "mcp_list_tools"
      [] f.type = "tool_args" ->
             \/ EvType(e) = "response.mcp_call_arguments.done" /\ f.id = e.item_id
             \/ /\ EvType(e) = "response.output_item.done"
                /\ e.item.type = "function_call"
                /\ f.id = e.item.id
      [] f.type = "tool_done" ->
             \/ EvType(e) = "response.mcp_call.completed" /\ f.id = e.item_id
             \/ /\ EvType(e) = "response.output_item.done"
                /\ e.item.type = "function_call"
                /\ f.id = e.item.id
      [] f.type = "tool_discovery_done" ->
             EvType(e) = "response.mcp_list_tools.completed"
      [] f.type = "citations" ->
             EvType(e) = "response.output_item.done" /\ e.item.type = "message"
      [] f.type = "done" -> EvType(e) = "response.completed"
      [] f.type = "error" ->
             \/ EvType(e) = "error"
             \/ EvType(e) = "response.output_item.done" /\ e.item.type = "message"
      [] OTHER -> FALSE

\* the only event with two frames: function_call done, tool_args then
\* tool_done
SameCause(f, g, e) ==
    /\ f.type = "tool_args" /\ g.type = "tool_done"
    /\ EvType(e) = "response.output_item.done"

\* fs can be produced from es in order: each frame has one causing event,
\* later frames have later causes, no event causes two frames except the
\* pair of SameCause
RECURSIVE InOrder(_, _)
InOrder(fs, es) ==
    IF fs = <<>> THEN TRUE
    ELSE IF es = <<>> THEN FALSE
    ELSE IF CausedBy(Head(fs), Head(es))
         THEN IF /\ Len(fs) >= 2
                 /\ SameCause(fs[1], fs[2], Head(es))
                 /\ CausedBy(fs[2], Head(es))
              THEN InOrder(Tail(Tail(fs)), Tail(es))
              ELSE InOrder(Tail(fs), Tail(es))
         ELSE InOrder(fs, Tail(es))

\* the text_delta contents of fs, one entry per frame
RECURSIVE TextFrames(_)
TextFrames(fs) ==
    IF fs = <<>> THEN <<>>
    ELSE (IF Head(fs).type = "text_delta" THEN <<Head(fs).content>> ELSE <<>>)
         \o TextFrames(Tail(fs))

\* the deltas of the output_text.delta events of es, one entry per event
RECURSIVE TextEvents(_)
TextEvents(es) ==
    IF es = <<>> THEN <<>>
    ELSE (IF EvType(Head(es)) = "response.output_text.delta"
          THEN <<Head(es).delta>> ELSE <<>>)
         \o TextEvents(Tail(es))

\* the frames that events caused: all of them, but for the error frame that
\* the except clause yields for a producer fault or a client fault
EventFrames ==
    IF FaultTaken \/ (pc = "closed" /\ thread = "not_started")
    THEN SubSeq(frames, 1, Len(frames) - 1)
    ELSE frames

\* C10: the frames follow the order of the received events that caused
\* them: every frame is the effect of one received event, the causes of
\* successive frames are successive in the upstream order, the text_delta
\* frames are one per received text delta with that delta as content, and
\* no frame is the effect of an arguments.delta or in_progress event.
C10_DownstreamOrder ==
    /\ IsPrefix(received, upstream)
    /\ InOrder(EventFrames, received)
    /\ TextFrames(frames) = TextEvents(received)

\* three events of different kinds were relayed into three or more frames
C10_Witness ==
    /\ Len(received) = 3
    /\ Len(frames) >= 3
    /\ frames[1].type # frames[2].type
    /\ frames[2].type # frames[3].type
    /\ \E i \in 1..3 : EvType(received[i]) = "response.mcp_call_arguments.delta"

----------------------------------------------------------------------------
(* C11 .. C20 *)

\* the loop is about to handle the event at the head of the queue
AtEvent ==
    /\ pc = "get"
    /\ event_queue # <<>>
    /\ IsEvent(Head(event_queue))

\* the step is the loop handling that event
Handles == AtEvent /\ received' = Append(received, Head(event_queue))

\* the loop is about to handle an arguments.done event for a pending id
AtPendingArgsDone ==
    /\ AtEvent
    /\ EvType(Head(event_queue)) = "response.mcp_call_arguments.done"
    /\ Head(event_queue).item_id \in DOMAIN pending_tools

\* C12 (as claimed): an arguments.done event for a pending id emits exactly
\* one tool_args frame, with the parsed value when the text is valid JSON and
\* with the raw string when it is not, and the loop continues.
C12_ParsedOrRaw ==
    [][(AtPendingArgsDone /\ Handles) =>
          /\ frames' = Append(frames,
                 ToolArgsFrame(Head(event_queue).item_id,
                               PayloadOf(Head(event_queue).arguments)))
          /\ pc' = "get"]_vars

\* the payload the code sends: {} for an empty text
ArgsPayload(text) == IF text = <<>> THEN EmptyDict ELSE PayloadOf(text)

\* C12 (amended): an arguments.done event for a pending id emits exactly one
\* tool_args frame: the parsed value when the text is valid JSON, the empty
\* object when the text is empty, the raw string otherwise; no error frame
\* is emitted, the pending buffers are kept and the loop continues.
C12_MalformedArgsRecovered ==
    [][(AtPendingArgsDone /\ Handles) =>
          /\ frames' = Append(frames,
                 ToolArgsFrame(Head(event_queue).item_id,
                               ArgsPayload(Head(event_queue).arguments)))
          /\ pc' = "get"
          /\ DOMAIN pending_tools' = DOMAIN pending_tools
          /\ pending_args' = pending_args]_vars

\* the raw text '{"q":' was forwarded and a later text delta was relayed
C12_Witness ==
    /\ Len(frames) = 3
    /\ frames[2] = ToolArgsFrame("1", Raw(ArgsHead))
    /\ frames[3].type = "text_delta"
    /\ pc # "closed"

\* the tags the if/elif chain handles
HandledTypes ==
    { "response.output_text.delta", "response.output_item.added",
      "response.mcp_call.in_progress", "response.mcp_call_arguments.delta",
      "response.mcp_call_arguments.done", "response.mcp_call.completed",
      "response.mcp_list_tools.completed", "response.output_item.done",
      "response.completed", "error" }

\* C13: an event whose type is none of the handled tags, or that has no
\* type, emits no frame, leaves both pending tables as they are and does not
\* end the loop.
C13_UnknownIgnored ==
    [][(AtEvent /\ EvType(Head(event_queue)) \notin HandledTypes /\ Handles) =>
          /\ frames' = frames
          /\ pending_tools' = pending_tools
          /\ pending_args' = pending_args
          /\ pc' = "get"]_vars

\* an event without type was received, then a text delta was relayed
C13_Witness ==
    /\ received = UntypedTrace
    /\ frames = <<TextDeltaFrame(S_hello)>>
    /\ pc # "closed"

\* C17 (as claimed): once a 'done' or an 'error' frame has been emitted the
\* loop has ended: the consumer calls event_queue.get no more, so it takes
\* nothing from the queue and its position does not change.
C17_NoPollAfterTerminal ==
    [][HasTerminal(frames) =>
          (pc' = pc /\ Len(event_queue') >= Len(event_queue))]_vars

\* the item ids the upstream events carry
ItemIds == {"1", "2"}

\* event e is the completion event of id
Completes(e, id) ==
    EvType(e) = "response.mcp_call.completed" /\ GetAttr(e, "item_id", NoneId) = id

\* event e makes the relay see id: an announcement, an in_progress or an
\* argument delta
Mentions(e, id) ==
    \/ /\ EvType(e) = "response.output_item.added"
       /\ "item" \in DOMAIN e
       /\ GetAttr(e.item, "type", NoneId) \in {"mcp_call", "function_call"}
       /\ GetAttr(e.item, "id", NoneId) = id
    \/ /\ EvType(e) \in {"response.mcp_call.in_progress",
                          "response.mcp_call_arguments.delta"}
       /\ GetAttr(e, "item_id", NoneId) = id

\* id was seen and no completion event for it came afterwards
SeenNotCompleted(es, id) ==
    \E i \in 1..Len(es) :
        /\ Mentions(es[i], id)
        /\ \A j \in (i+1)..Len(es) : ~Completes(es[j], id)

\* the name in the last tool_start frame for id
RECURSIVE AnnouncedName(_, _)
AnnouncedName(fs, id) ==
    IF fs = <<>> THEN "Tool"
    ELSE IF Last(fs).type = "tool_start" /\ Last(fs).id = id THEN Last(fs).name
    ELSE AnnouncedName(SubSeq(fs, 1, Len(fs) - 1), id)

C18_KeysPending ==
    \A id \in DOMAIN pending_tools \cup DOMAIN pending_args :
        SeenNotCompleted(received, id)

C18_CompletionStep ==
    [][(/\ AtEvent
        /\ Completes(Head(event_queue), Head(event_queue).item_id)
        /\ Head(event_queue).item_id \in DOMAIN pending_tools
        /\ Handles) =>
          LET id == Head(event_queue).item_id IN
          /\ frames' = Append(frames, ToolDoneFrame(id, AnnouncedName(frames, id)))
          /\ id \notin DOMAIN pending_tools'
          /\ id \notin DOMAIN pending_args']_vars

\* C18: the completion event of an announced id emits one tool_done frame
\* with that id and the name it was announced with, and removes the id from
\* pending_tools and pending_args; the keys of both tables are always ids
\* that were seen and have had no completion event since.
C18_CompletionReclaims == C18_CompletionStep /\ []C18_KeysPending

\* a call with an argument buffer was completed: both tables are empty again
C18_Witness ==
    /\ Len(received) = 3
    /\ received[1] = ItemAdded(McpItem)
    /\ received[2] = ArgsDelta("1", ArgsHead)
    /\ received[3] = CallCompleted("1")
    /\ Last(frames) = ToolDoneFrame("1", "search")
    /\ pending_tools = EmptyTable
    /\ pending_args = EmptyTable

\* the events after the last completion event of id
RECURSIVE SinceCompletion(_, _)
SinceCompletion(es, id) ==
    IF es = <<>> THEN <<>>
    ELSE IF Completes(Last(es), id) THEN <<>>
    ELSE Append(SinceCompletion(SubSeq(es, 1, Len(es) - 1), id), Last(es))

\* C19: pending_args[id] is the concatenation, in arrival order, of the
\* argument deltas received for id since its last completion event, with or
\* without a pending_tools entry and wherever in_progress arrived; no buffer
\* means no such delta, and in_progress does not reset a buffer.
C19_BufferIsDeltas ==
    \A id \in ItemIds :
        LET since == DeltasFor(SinceCompletion(received, id), id) IN
        IF id \in DOMAIN pending_args THEN pending_args[id] = since
        ELSE since = <<>>

\* a delta arrived before the in_progress event and another one after it,
\* the id was never announced, and the buffer holds both fragments
C19_Witness ==
    /\ received = <<ArgsDelta("1", ArgsHead), InProgress("1"),
                    ArgsDelta("1", ArgsTail)>>
    /\ "1" \notin DOMAIN pending_tools
    /\ pending_args["1"] = ArgsFull

\* the events after which a tool_args frame for id may be emitted
ArgsSources(es, id) ==
    {i \in 1..Len(es) :
        \/ /\ EvType(es[i]) = "response.mcp_call_arguments.done"
           /\ GetAttr(es[i], "item_id", NoneId) = id
        \/ /\ EvType(es[i]) = "response.output_item.done"
           /\ "item" \in DOMAIN es[i]
           /\ GetAttr(es[i].item, "type", NoneId) = "function_call"
           /\ GetAttr(es[i].item, "id", NoneId) = id}

ArgsFrames(fs, id) ==
    {i \in 1..Len(fs) : fs[i].type = "tool_args" /\ fs[i].id = id}

C20_ArgsFramesBounded ==
    \A id \in ItemIds :
        Cardinality(ArgsFrames(frames, id))
            <= Cardinality(ArgsSources(received, id))

C20_SilentStep ==
    [][(/\ AtEvent
        /\ EvType(Head(event_queue)) \in {"response.mcp_call_arguments.delta",
                                         "response.mcp_call.in_progress"}
        /\ Handles) => frames' = frames]_vars

\* C20: an argument delta and an in_progress event emit no frame, and the
\* tool_args frames emitted for an id are never more than the
\* arguments.done and function_call output_item.done events received for it.
C20_DeltasSuppressed == C20_SilentStep /\ []C20_ArgsFramesBounded

\* two deltas and one arguments.done for an announced id: one tool_args frame
C20_Witness ==
    /\ Len(received) = 5
    /\ SubSeq(received, 1, 5) = SubSeq(ReferenceTrace, 1, 5)
    /\ Cardinality(ArgsFrames(frames, "1")) = 1
    /\ Len(frames) = 2

\* what one request alone makes of the events es: the frames of the if/elif
\* chain and the pending tables it is left with
RECURSIVE Relayed(_)
Relayed(es) ==
    IF es = <<>>
    THEN [frames |-> <<>>, tools |-> EmptyTable, args |-> EmptyTable]
    ELSE LET before == Relayed(SubSeq(es, 1, Len(es) - 1))
             h == HandleEvent(Last(es), before.tools, before.args)
         IN  [frames |-> before.frames \o h.frames, tools |-> h.tools,
              args |-> h.args]

\* the state of request r is made of its own events only
OwnEventsOnly(r) ==
    LET q == requests[r]
        alone == Relayed(q.received)
    IN  /\ q.received \o EventsOf(q.event_queue) = EventsOf(q.puts)
        /\ q.pending_tools = alone.tools
        /\ q.pending_args = alone.args
        /\ IsPrefix(alone.frames, q.frames)
        /\ \A i \in (Len(alone.frames) + 1)..Len(q.frames) :
              q.frames[i].type = "error"

C11_OwnState == \A r \in Requests : OwnEventsOnly(r)

C11_OneRequestPerStep ==
    [][\E r \in Requests :
          \A o \in Requests \ {r} : requests'[o] = requests[o]]_vars

\* C11: with two /chat requests in flight, each has its own queue, producer
\* thread and pending tables: what a request has received and still has
\* queued is exactly what its own producer put, in order, its tables and
\* frames are those its own events give, and a step of one request changes
\* nothing of the other, under every interleaving.
C11_RequestIsolation == C11_OneRequestPerStep /\ []C11_OwnState

\* both requests are in their loops and hold different pending tables
C11_Witness ==
    /\ requests["r1"].pc = "get" /\ requests["r2"].pc = "get"
    /\ requests["r1"].received = <<ItemAdded(McpItem)>>
    /\ requests["r2"].received = <<ArgsDelta("1", ArgsHead)>>
    /\ DOMAIN requests["r1"].pending_tools = {"1"}
    /\ requests["r1"].pending_args = EmptyTable
    /\ requests["r2"].pending_tools = EmptyTable
    /\ DOMAIN requests["r2"].pending_args = {"1"}
    /\ requests["r1"].frames = <<ToolStartFrame("1", "search")>>
    /\ requests["r2"].frames = <<>>

\* the requests whose client went away while their producer thread lives
Abandoned ==
    {r \in Requests :
        requests[r].pc = "cancelled" /\ requests[r].thread = "running"}

C14_CancelStopsPolling ==
    [][\A r \in Requests :
          requests[r].pc = "cancelled" =>
              /\ requests'[r].pc = "cancelled"
              /\ requests'[r].received = requests[r].received
              /\ requests'[r].frames = requests[r].frames
              /\ Len(requests'[r].event_queue) >= Len(requests[r].event_queue)]_vars

\* a cap on the live producer threads of cancelled requests: they are never
\* as many as the requests that were made
C14_ThreadsCapped == Cardinality(Abandoned) < Cardinality(Requests)

\* C14 (as claimed): after the client disconnects the loop polls the queue
\* no more, and the producer threads left alive by cancelled requests stay
\* under a cap however many requests are cancelled.
C14_CancelBounded == C14_CancelStopsPolling /\ []C14_ThreadsCapped

\* the step is a pass through the body of the client's while loop
LoopPass == client_kind \in {"plain", "streaming"} /\ client_kind' = client_kind

\* the last pass of the client's loop sent a request
RequestSent == turn' \in {"answered", "request_raised"}

\* items is the history, in order, followed by the user message
HistoryThenMessage(items, history, message) ==
    /\ Len(items) = Len(history) + 1
    /\ \A i \in 1..Len(history) :
          /\ items[i].type = "message"
          /\ items[i].role = history[i].role
          /\ items[i].content = history[i].content
    /\ Last(items) = [type |-> "message", role |-> "user", content |-> message]

\* C15: every request's input is the stored history, in order, followed by
\* the new user message; a request that completes appends the user message
\* and then, only when the response text is not empty, the assistant
\* message; 'new' empties the history; empty input and a request that
\* raises leave it as it is.
C15_HistoryDiscipline ==
    [][LoopPass =>
       /\ RequestSent =>
             HistoryThenMessage(input_items', conversation_history, user_input')
       /\ turn' = "answered" =>
             conversation_history' =
                 conversation_history
                 \o << [role |-> "user", content |-> user_input'] >>
                 \o (IF response_text' = <<>> THEN <<>>
                     ELSE << [role |-> "assistant", content |-> response_text'] >>)
       /\ turn' = "new" => conversation_history' = <<>>
       /\ turn' \in {"empty", "refresh_raised", "request_raised"} =>
             conversation_history' = conversation_history]_clientVars

\* the second request got an empty response: its input was the first
\* exchange and the new message, and only the user message was appended
C15_Witness ==
    /\ turn = "answered"
    /\ response_text = <<>>
    /\ Len(input_items) = 3
    /\ conversation_history =
          << [role |-> "user", content |-> S_hi],
             [role |-> "assistant", content |-> S_ok],
             [role |-> "user", content |-> S_hi] >>

\* the response holds at least one approval request
HasApprovalRequest(resp) ==
    \E i \in 1..Len(resp.output) :
        /\ "type" \in DOMAIN resp.output[i]
        /\ resp.output[i].type = "mcp_approval_request"

\* the step sends a continuation request
ContinuationSent == calls' = calls + 1 \/ approval_pc' = "raised"

\* apps approves every request of resp exactly once and nothing else
OneApprovalPerRequest(apps, resp) ==
    /\ \A i \in 1..Len(resp.output) :
          ("type" \in DOMAIN resp.output[i]
              /\ resp.output[i].type = "mcp_approval_request") =>
              Cardinality({j \in 1..Len(apps) :
                  apps[j].approval_request_id = resp.output[i].id}) = 1
    /\ \A j \in 1..Len(apps) :
          /\ apps[j].type = "mcp_approval_response"
          /\ apps[j].approve = TRUE
          /\ \E i \in 1..Len(resp.output) :
                /\ "type" \in DOMAIN resp.output[i]
                /\ resp.output[i].type = "mcp_approval_request"
                /\ resp.output[i].id = apps[j].approval_request_id

\* C16: while the current response holds an approval request the next
\* request carries one mcp_approval_response with approve=True per pending
\* request id and the current response's id as previous_response_id; the
\* function returns the first response without approval request, whatever
\* its status, and sends nothing after it.
C16_ApprovalLoop ==
    [][approval_pc = "loop" =>
          /\ HasApprovalRequest(response) =>
                /\ approval_pc' # "returned"
                /\ ContinuationSent
                /\ OneApprovalPerRequest(approvals', response)
                /\ previous_response_id' = response.id
          /\ ~HasApprovalRequest(response) =>
                /\ approval_pc' = "returned"
                /\ response' = response
                /\ UNCHANGED <<approvals, previous_response_id, calls>>]_approvalVars

\* after two rounds of approvals, the second for two requests, an
\* incomplete response without approval request was returned
C16_Witness ==
    /\ approval_pc = "returned"
    /\ calls = 2
    /\ Len(approvals) = 2
    /\ response.status = "incomplete"
    /\ response.output = <<MessageOutput>>
    /\ previous_response_id # response.id

----------------------------------------------------------------------------
(* C21 .. C30 *)

\* event e is an announcement of a tool call: output_item.added with an
\* item of type mcp_call or function_call
IsAnnouncement(e) ==
    /\ EvType(e) = "response.output_item.added"
    /\ "item" \in DOMAIN e
    /\ GetAttr(e.item, "type", NoneId) \in {"mcp_call", "function_call"}

\* event e is about the tool call id
About(e, id) ==
    \/ /\ EvType(e) \in {"response.output_item.added",
                          "response.output_item.done"}
       /\ "item" \in DOMAIN e
       /\ GetAttr(e.item, "id", NoneId) = id
    \/ /\ EvType(e) \in {"response.mcp_call.in_progress",
                          "response.mcp_call_arguments.delta",
                          "response.mcp_call_arguments.done",
                          "response.mcp_call.completed"}
       /\ GetAttr(e, "item_id", NoneId) = id

\* the events about id, in arrival order
RECURSIVE EventsAbout(_, _)
EventsAbout(es, id) ==
    IF es = <<>> THEN <<>>
    ELSE (IF About(Head(es), id) THEN <<Head(es)>> ELSE <<>>)
         \o EventsAbout(Tail(es), id)

\* the frames that carry id, in emission order
RECURSIVE FramesAbout(_, _)
FramesAbout(fs, id) ==
    IF fs = <<>> THEN <<>>
    ELSE (IF GetAttr(Head(fs), "id", NoneId) = id THEN <<Head(fs)>> ELSE <<>>)
         \o FramesAbout(Tail(fs), id)

\* announcement, then argument deltas (and in_progress notices), then
\* arguments.done, then mcp_call.completed
WellFormedFor(p) ==
    /\ Len(p) >= 3
    /\ IsAnnouncement(p[1])
    /\ \A i \in 2..(Len(p) - 2) :
          EvType(p[i]) \in {"response.mcp_call_arguments.delta",
                           "response.mcp_call.in_progress"}
    /\ EvType(p[Len(p) - 1]) = "response.mcp_call_arguments.done"
    /\ EvType(p[Len(p)]) = "response.mcp_call.completed"

C21_Lifecycle ==
    \A id \in ItemIds :
        LET p == EventsAbout(received, id)
            f == FramesAbout(frames, id)
        IN  WellFormedFor(p) =>
              /\ Len(f) = 3
              /\ f[1].type = "tool_start"
              /\ f[2] = ToolArgsFrame(id, ArgsPayload(p[Len(p) - 1].arguments))
              /\ f[3] = ToolDoneFrame(id, f[1].name)

C21_StartCount ==
    CountType(frames, "tool_start")
        = Cardinality({i \in 1..Len(received) : IsAnnouncement(received[i])})

C21_AnnounceStep ==
    [][(AtEvent /\ Handles) =>
          IF IsAnnouncement(Head(event_queue))
          THEN /\ Len(frames') = Len(frames) + 1
               /\ Last(frames').type = "tool_start"
               /\ Last(frames').id = Head(event_queue).item.id
               /\ Head(event_queue).item.id \in DOMAIN pending_tools'
          ELSE CountType(frames', "tool_start")
                   = CountType(frames, "tool_start")]_vars

\* C21: when the events about an id are an announcement, then argument
\* deltas, then arguments.done, then mcp_call.completed, the frames for that
\* id are tool_start, tool_args, tool_done, in that order and each once;
\* tool_start is emitted exactly on an output_item.added of type mcp_call or
\* function_call, which also records the id in pending_tools.
C21_PerIdLifecycle ==
    C21_AnnounceStep /\ [](C21_Lifecycle /\ C21_StartCount)

\* an announced call with one delta was completed: three frames for its id
C21_Witness ==
    /\ received = MismatchTrace
    /\ frames = << ToolStartFrame("1", "search"),
                   ToolArgsFrame("1", Parsed(ArgsFull)),
                   ToolDoneFrame("1", "search") >>

\* reading the fields of event e raises: a message item whose last content
\* block is output_text and holds a url_citation annotation without url
ReadRaises(e) ==
    /\ EvType(e) = "response.output_item.done"
    /\ "item" \in DOMAIN e
    /\ GetAttr(e.item, "type", NoneId) = "message"
    /\ "content" \in DOMAIN e.item
    /\ e.item.content # <<>>
    /\ LET block == Last(e.item.content) IN
       /\ GetAttr(block, "type", NoneId) = "output_text"
       /\ "annotations" \in DOMAIN block
       /\ \E i \in 1..Len(block.annotations) :
             /\ GetAttr(block.annotations[i], "type", NoneId) = "url_citation"
             /\ "url" \notin DOMAIN block.annotations[i]

\* C22: when handling an event raises inside the loop, or creating the
\* client raises, the relay emits exactly one 'error' frame and the
\* generator ends: the exception is caught, not propagated, and no frame
\* follows that error frame.
C22_FaultDowngraded ==
    [][/\ (AtEvent /\ ReadRaises(Head(event_queue)) /\ Handles) =>
             /\ frames' = Append(frames, ErrorFrame(AttributeFault))
             /\ pc' = "closed"
       /\ (pc = "start" /\ pc' = "closed") =>
             frames' = <<ErrorFrame(ClientFault)>>
       /\ pc = "closed" => (pc' = "closed" /\ frames' = frames)]_vars

\* a text delta was relayed, the next event raised while its citations were
\* read, and the stream ended on the error frame with an event left queued
C22_Witness ==
    /\ Len(received) = 2
    /\ ReadRaises(received[2])
    /\ frames = <<TextDeltaFrame(S_hello), ErrorFrame(AttributeFault)>>
    /\ pc = "closed"
    /\ event_queue # <<>>

\* the items the loop has taken from the queue so far
Dequeued == SubSeq(puts, 1, Len(puts) - Len(event_queue))

\* what the loop makes of the queue items it has taken, whenever it took
\* them: the frames, the pending tables and whether the generator ended
RECURSIVE RelayOf(_)
RelayOf(items) ==
    IF items = <<>>
    THEN [frames |-> <<>>, tools |-> EmptyTable, args |-> EmptyTable,
          closed |-> FALSE]
    ELSE LET b == RelayOf(SubSeq(items, 1, Len(items) - 1))
             x == Last(items)
         IN  IF b.closed THEN b
             ELSE IF x = EndSentinel THEN [b EXCEPT !.closed = TRUE]
             ELSE IF ~IsEvent(x)
             THEN [b EXCEPT !.frames = Append(@, ErrorFrame(x.message)),
                            !.closed = TRUE]
             ELSE LET h == HandleEvent(x, b.tools, b.args) IN
                  [frames |-> b.frames \o h.frames
                                \o (IF h.fault # "" THEN <<ErrorFrame(h.fault)>>
                                    ELSE <<>>),
                   tools |-> h.tools, args |-> h.args,
                   closed |-> h.fault # ""]

C23_ScheduleFree ==
    thread # "not_started" =>
        LET o == RelayOf(Dequeued) IN
        /\ frames = o.frames
        /\ pending_tools = o.tools
        /\ pending_args = o.args
        /\ (pc = "closed") = o.closed

C23_TimeoutStep ==
    [][(pc # "closed" /\ pc' # pc /\ event_queue' = event_queue /\ pc # "start") =>
          /\ pc' \in {"get", "sleep"}
          /\ frames' = frames
          /\ pending_tools' = pending_tools
          /\ pending_args' = pending_args]_vars

\* C23: a timeout of event_queue.get on the empty queue emits no frame,
\* changes no pending table and does not end the stream; the loop ends only
\* on a dequeued sentinel (or a fault of its own), so the frames are a
\* function of the items dequeued and not of how puts and polls interleave.
C23_TimeoutNoDeadline == C23_TimeoutStep /\ []C23_ScheduleFree

\* the loop timed out after relaying one event, the producer has put the
\* next one meanwhile, and it is still to be relayed
C23_Witness ==
    /\ pc = "sleep"
    /\ Len(received) = 1
    /\ Len(frames) = 1
    /\ event_queue # <<>>
    /\ thread = "running"

\* the annotation is of a kind that is cited
IsCitation(ann) ==
    GetAttr(ann, "type", NoneId) \in {"url_citation", "file_citation"}

\* the citations of a content block: its url and file citations, in order
CitedIn(block) ==
    LET keep == SelectSeq(GetAttr(block, "annotations", <<>>), IsCitation) IN
    [i \in 1..Len(keep) |->
        IF keep[i].type = "url_citation"
        THEN [type |-> "url", url |-> keep[i].url]
        ELSE [type |-> "file", file_id |-> GetAttr(keep[i], "file_id", "unknown")]]

\* the citations of a completed message item: those of its last content
\* block, when that block is output_text
CitationsOf(item) ==
    LET content == GetAttr(item, "content", <<>>) IN
    IF content = <<>> THEN <<>>
    ELSE IF GetAttr(Last(content), "type", NoneId) # "output_text" THEN <<>>
    ELSE CitedIn(Last(content))

AtMessageDone ==
    /\ AtEvent
    /\ EvType(Head(event_queue)) = "response.output_item.done"
    /\ "item" \in DOMAIN Head(event_queue)
    /\ GetAttr(Head(event_queue).item, "type", NoneId) = "message"

\* C24: a completed message item emits at most one 'citations' frame; the
\* frame lists, in order, the url and file citations of the last content
\* block only, and only when that block is output_text; other kinds of
\* annotation are skipped, and an empty list emits nothing.
C24_CitationsFlattened ==
    [][(AtMessageDone /\ Handles) =>
          IF ReadRaises(Head(event_queue))
          THEN CountType(frames', "citations") = CountType(frames, "citations")
          ELSE LET c == CitationsOf(Head(event_queue).item) IN
               frames' = frames \o (IF c = <<>> THEN <<>>
                                    ELSE <<CitationsFrame(c)>>)]_vars

\* four message items were completed: one frame, citing the file without
\* id and the url of the first item's only block, and nothing for the others
C24_Witness ==
    /\ received = CitationTrace
    /\ frames = << CitationsFrame(<< [type |-> "file", file_id |-> "unknown"],
                                     [type |-> "url", url |-> "http://u"] >>) >>

\* event e announces a tool listing
IsListTools(e) ==
    /\ EvType(e) = "response.output_item.added"
    /\ "item" \in DOMAIN e
    /\ GetAttr(e.item, "type", NoneId) = "mcp_list_tools"

\* C25: an output_item.added of type mcp_list_tools emits exactly one
\* tool_discovery frame, a response.mcp_list_tools.completed exactly one
\* tool_discovery_done frame, and these events and text deltas leave
\* pending_tools and pending_args as they are.
C25_StatelessMappings ==
    [][(AtEvent /\ Handles) =>
          LET e == Head(event_queue) IN
          /\ IsListTools(e) =>
                /\ Len(frames') = Len(frames) + 1
                /\ SubSeq(frames', 1, Len(frames)) = frames
                /\ Last(frames').type = "tool_discovery"
          /\ EvType(e) = "response.mcp_list_tools.completed" =>
                frames' = Append(frames, [type |-> "tool_discovery_done"])
          /\ (\/ IsListTools(e)
              \/ EvType(e) \in {"response.mcp_list_tools.completed",
                                "response.output_text.delta"}) =>
                /\ pending_tools' = pending_tools
                /\ pending_args' = pending_args]_vars

\* a tool listing started and ended while a call was pending
C25_Witness ==
    /\ Len(received) = 3
    /\ received[1] = ItemAdded(McpItem)
    /\ received[2] = ItemAdded(ListToolsItem)
    /\ received[3] = ListToolsCompleted
    /\ frames = << ToolStartFrame("1", "search"), ToolDiscoveryFrame("kb"),
                   ToolDiscoveryDoneFrame >>
    /\ DOMAIN pending_tools = {"1"}

\* the announcements of id among the events es
Announcements(es, id) ==
    {i \in 1..Len(es) :
        IsAnnouncement(es[i]) /\ GetAttr(es[i].item, "id", NoneId) = id}

\* a tool_done frame for id is among the frames fs
DoneEmitted(fs, id) ==
    \E j \in 1..Len(fs) :
        fs[j].type = "tool_done" /\ GetAttr(fs[j], "id", NoneId) = id

AtArgsDone ==
    /\ AtEvent
    /\ EvType(Head(event_queue)) = "response.mcp_call_arguments.done"

\* the first half of C26: arguments.done for an id that is not pending
C26_NotPendingSilent ==
    [][(AtArgsDone /\ Handles
          /\ Head(event_queue).item_id \notin DOMAIN pending_tools) =>
          /\ frames' = frames
          /\ pending_tools' = pending_tools
          /\ pending_args' = pending_args]_vars

\* C26 (as claimed): arguments.done for an id that is not in pending_tools
\* emits nothing and changes no table, and a tool_args frame emitted for
\* an arguments.done event references an id (announced once, ids are not
\* reused) whose tool_start was emitted before and whose tool_done has not
\* been emitted yet.
C26_ArgsDoneGuarded ==
    [][(AtArgsDone /\ Handles) =>
          LET id == Head(event_queue).item_id IN
          /\ id \notin DOMAIN pending_tools =>
                /\ frames' = frames
                /\ pending_tools' = pending_tools
                /\ pending_args' = pending_args
          /\ (frames' # frames
                /\ Cardinality(Announcements(received, id)) <= 1) =>
                /\ AnnouncedBy(frames, Len(frames), id)
                /\ ~DoneEmitted(frames, id)]_vars

AtFunctionCallDone ==
    /\ AtEvent
    /\ EvType(Head(event_queue)) = "response.output_item.done"
    /\ "item" \in DOMAIN Head(event_queue)
    /\ GetAttr(Head(event_queue).item, "type", NoneId) = "function_call"

\* the frames and the table after a completed function_call item
FunctionCallDoneStep ==
    LET item == Head(event_queue).item
        id == GetAttr(item, "id", NoneId)
        text == GetAttr(item, "arguments", <<"{", "}">>)
    IN  /\ frames' = frames
                      \o (IF JsonLoads(text).ok
                          THEN <<ToolArgsFrame(id, PayloadOf(text))>> ELSE <<>>)
                      \o << [type |-> "tool_done", id |-> id] >>
        /\ id \notin DOMAIN pending_tools'

\* the function-call path without the claim about the announcement
C27_PathFrames ==
    [][(AtFunctionCallDone /\ Handles) => FunctionCallDoneStep]_vars

\* C27 (as claimed): a completed function_call item emits tool_args when
\* its arguments parse as JSON, then always a tool_done frame with the id
\* and no name, and removes the id from pending_tools; the id of these
\* frames has a tool_start frame emitted earlier on the stream.
C27_FunctionCallPath ==
    [][(AtFunctionCallDone /\ Handles) =>
          /\ FunctionCallDoneStep
          /\ AnnouncedBy(frames, Len(frames),
                         GetAttr(Head(event_queue).item, "id", NoneId))]_vars

\* the loop has raised on one of the events it received
RelayFaulted == \E i \in 1..Len(received) : ReadRaises(received[i])

\* as long as the producer has put no sentinel the loop goes on polling
\* (unless it raised itself)
C28_PollsWhileOpen ==
    (thread = "running" /\ ~RelayFaulted) => pc \in {"get", "sleep"}

ItemOf(e) == IF "item" \in DOMAIN e THEN e.item ELSE [type |-> NoneId]

\* e announces a tool call with this id to stream_response
CliAnnounces(e, id) ==
    /\ EvType(e) = "response.output_item.added"
    /\ GetAttr(ItemOf(e), "type", NoneId) \in {"mcp_call", "function_call"}
    /\ GetAttr(ItemOf(e), "id", NoneId) = id

CliCompletes(e, id) ==
    EvType(e) = "response.mcp_call.completed" /\ GetAttr(e, "item_id", NoneId) = id

CliFunctionDone(e) ==
    /\ EvType(e) = "response.output_item.done"
    /\ GetAttr(ItemOf(e), "type", NoneId) = "function_call"

\* e ends the call: its completion, or the end of a function call item
CliEnds(e, id) ==
    CliCompletes(e, id) \/ (CliFunctionDone(e) /\ GetAttr(e.item, "id", NoneId) = id)

CliArgsDoneFor(e, id) ==
    /\ EvType(e) = "response.mcp_call_arguments.done"
    /\ GetAttr(e, "item_id", NoneId) = id

\* the position of the last event before position i that satisfies P, 0 if none
LastBefore(es, i, P(_)) ==
    LET hits == {j \in 1..(i - 1) : P(es[j])} IN
    IF hits = {} THEN 0 ELSE CHOOSE j \in hits : \A k \in hits : k <= j

\* at position i the id is announced and its call has not ended since
AnnouncedOpen(es, i, id) ==
    LET Ann(e) == CliAnnounces(e, id)
        j == LastBefore(es, i, Ann)
    IN  j > 0 /\ \A k \in (j + 1)..(i - 1) : ~CliEnds(es[k], id)

\* the name under which the announcement of es[j] introduced the call
NameAnnounced(item) ==
    IF item.type = "mcp_call"
    THEN IF GetAttr(item, "name", "") \notin {"", NoneId} THEN item.name
         ELSE GetAttr(item, "server_label", "unknown_tool")
    ELSE GetAttr(item, "name", "unknown_tool")

\* the ledger entries that the event at position i contributes
LedgerAt(es, i) ==
    LET e == es[i]
        id == GetAttr(e, "item_id", NoneId)
        Ann(x) == CliAnnounces(x, id)
        Args(x) == CliArgsDoneFor(x, id)
        j == LastBefore(es, i, Ann)
        a == LastBefore(es, i, Args)
    IN  IF EvType(e) = "response.mcp_call.completed"
        THEN IF IdTruthy(id) /\ AnnouncedOpen(es, i, id)
             THEN << [name |-> NameAnnounced(es[j].item),
                      arguments |-> IF a > j
                                    THEN GetAttr(es[a], "arguments", <<"{", "}">>)
                                    ELSE <<>>,
                      id |-> id] >>
             ELSE <<>>
        ELSE IF CliFunctionDone(e)
        THEN << [name |-> GetAttr(e.item, "name", "unknown_tool"),
                 arguments |-> GetAttr(e.item, "arguments", <<"{", "}">>),
                 call_id |-> GetAttr(e.item, "call_id",
                                     GetAttr(e.item, "id", NoneId))] >>
        ELSE <<>>

RECURSIVE LedgerUpTo(_, _)
LedgerUpTo(es, n) ==
    IF n = 0 THEN <<>> ELSE LedgerUpTo(es, n - 1) \o LedgerAt(es, n)

\* the events before the first 'error' event
BeforeError(es) ==
    LET errs == {i \in 1..Len(es) : EvType(es[i]) = "error"} IN
    IF errs = {} THEN es
    ELSE SubSeq(es, 1, (CHOOSE i \in errs : \A k \in errs : i <= k) - 1)

\* text and ledger are those of the events before the first error event, and
\* nothing is consumed after an error event
C29_TextAndLedger ==
    cli_pc \in {"loop", "returned", "raised"} =>
        /\ full_text = UpstreamText(BeforeError(consumed))
        /\ tool_calls = LedgerUpTo(BeforeError(consumed),
                                   Len(BeforeError(consumed)))
        /\ \A i \in 1..(Len(consumed) - 1) : EvType(consumed[i]) # "error"
        /\ cli_pc = "loop" => BeforeError(consumed) = consumed

\* a step that consumes an mcp_call.completed event does not raise, leaves
\* the id in neither pending table, and adds nothing for an unannounced id
C29_CompletionStep ==
    [][ \A id \in {"1", "2"} :
          (cli_pc = "loop" /\ consumed' = Append(consumed, CallCompleted(id)))
          => /\ cli_pc' = "loop"
             /\ id \notin DOMAIN pending_tool_calls'
             /\ id \notin DOMAIN pending_mcp_args'
             /\ id \notin DOMAIN pending_tool_calls => tool_calls' = tool_calls
      ]_vars

\* C29: stream_response returns the concatenation of the text deltas received
\* before the first 'error' event (which stops the loop) and a ledger with,
\* in completion order, one entry per mcp_call.completed whose id was
\* announced and not yet completed (name of the announcement, arguments of
\* the arguments.done event) plus one per function_call output_item.done; a
\* completion of an unannounced id adds no entry and raises nothing; after a
\* completion the id is in neither pending table.
C29_CliTextAndLedger == C29_CompletionStep /\ []C29_TextAndLedger

\* the reference run has returned: one announced call completed once (its
\* second completion ignored), a function call recorded, text up to the error
C29_Witness ==
    /\ cli_pc = "returned"
    /\ consumed = CliTrace
    /\ full_text = S_a
    /\ tool_calls = << [name |-> "search", arguments |-> ArgsFull, id |-> "1"],
                       [name |-> "lookup", arguments |-> ArgsSpaced,
                        call_id |-> "2"] >>
    /\ pending_tool_calls = EmptyTable

\* the position of the last 'new' before position i of the log, 0 if none
LastNew(log, i) ==
    LET news == {j \in 1..(i - 1) : log[j].kind = "new"} IN
    IF news = {} THEN 0 ELSE CHOOSE j \in news : \A k \in news : k <= j

\* the conversation current at position i: that of the last 'new' before
\* it, or the one created at start (the first the service created)
ConversationAt(log, i) ==
    IF LastNew(log, i) = 0 THEN 1 ELSE log[LastNew(log, i)].conversation

\* the requests between the last 'new' (or the start) and position i
MessagesSince(log, i) ==
    {k \in (LastNew(log, i) + 1)..(i - 1) : log[k].kind = "message"}

\* those of them that returned a response
ReturnedSince(log, i) ==
    {k \in MessagesSince(log, i) : log[k].result # "raised"}

MaxOf(S) == CHOOSE k \in S : \A m \in S : m <= k

SentWithConversation(req, conv) ==
    /\ "conversation" \in DOMAIN req /\ req.conversation = conv
    /\ "previous_response_id" \notin DOMAIN req

SentChained(req, id) ==
    /\ "previous_response_id" \in DOMAIN req /\ req.previous_response_id = id
    /\ "conversation" \notin DOMAIN req

\* the chain as the loop keeps it: conversation and last_response are those
\* of the last 'new' and of the last returned response after it
ChainState(log, conv, last) ==
    LET n == Len(log) + 1 IN
    /\ conv = ConversationAt(log, n)
    /\ \A j \in 1..Len(log) :
          log[j].kind = "new" =>
              \A k \in 1..(j - 1) :
                  log[k].kind = "new" => log[k].conversation # log[j].conversation
    /\ \A j \in 1..Len(log) : log[j].kind = "new" => log[j].conversation # 1
    /\ IF ReturnedSince(log, n) = {} THEN last = NoResponse
       ELSE last # NoResponse /\ last.id = log[MaxOf(ReturnedSince(log, n))].result

====
